---- MODULE Spec2Model ----
(***************************************************************************)
(* Pixo engine (pixelEngine.ts): grid-based image conversion.              *)
(*                                                                         *)
(* JavaScript numbers are IEEE-754 binary64 values.  The engine's grid     *)
(* geometry and region statistics are computed with them, so the model     *)
(* carries a binary64 arithmetic (round to nearest, ties to even) built on *)
(* natural numbers of arbitrary size.  Integer-valued JavaScript numbers   *)
(* (pixel channels, widths, loop counters) are modelled as integers and    *)
(* converted where they meet a fractional value.                           *)
(***************************************************************************)
EXTENDS Integers, Sequences, FiniteSets, TLC

(***************************************************************************)
(* The state.  The first group is one thread of convertToPixelArt calls on *)
(* one source canvas; geo, shp and rgn are the states of the grid          *)
(* geometry, of applySharpen and of regionStats when each is run on its    *)
(* own inputs.                                                             *)
(***************************************************************************)
VARIABLES
  heap,      \* the pixel buffers: the source canvas's, getImageData's, applySharpen's
  settings,  \* the settings object of the call
  pc,        \* where the call is
  frame,     \* the locals of the call
  ctx,       \* the drawing state of the output canvas's context
  out,       \* the output canvas: its size and what was drawn on it, in order
  cell,      \* the cell the loop visited last
  result,    \* what the call returned
  ref,       \* the first call on this canvas: its settings and what it returned
  geo,
  shp,
  rgn,
  pass,      \* one pass of the cell loop of a call, by itself
  exp,       \* a call of exportAtScale
  panel,     \* the settings ControlsPanel edits
  page,      \* the page: its React state, its refs and its pending callbacks
  ring,      \* a call of renderConcentric
  load,      \* a call of loadImage
  draw,      \* a call of drawImageToCanvas
  view       \* PixelCanvas: its zoom and the result it was rendered with

vars == <<heap, settings, pc, frame, ctx, out, cell, result, ref, geo, shp, rgn,
          pass, exp, panel, page, ring, load, draw, view>>

(***************************************************************************)
(* Natural numbers of arbitrary size: little-endian sequences of limbs in  *)
(* 0..Base-1 without leading (highest) zero limbs; <<>> is zero.           *)
(***************************************************************************)
LimbBits == 13
Base == 2^LimbBits

Min(a, b) == IF a < b THEN a ELSE b
Max(a, b) == IF a > b THEN a ELSE b

RECURSIVE BigNorm(_)
BigNorm(a) ==
  IF a = <<>> THEN <<>>
  ELSE IF a[Len(a)] = 0 THEN BigNorm(SubSeq(a, 1, Len(a) - 1))
  ELSE a

RECURSIVE BigFromNat(_)
BigFromNat(n) == IF n = 0 THEN <<>> ELSE <<n % Base>> \o BigFromNat(n \div Base)

RECURSIVE BigToNat(_)
BigToNat(a) == IF a = <<>> THEN 0 ELSE Head(a) + Base * BigToNat(Tail(a))

BigHead(a) == IF a = <<>> THEN 0 ELSE Head(a)
BigTail(a) == IF a = <<>> THEN <<>> ELSE Tail(a)

RECURSIVE BigAddC(_, _, _)
BigAddC(a, b, c) ==
  IF a = <<>> /\ b = <<>> THEN (IF c = 0 THEN <<>> ELSE <<c>>)
  ELSE LET x == BigHead(a) + BigHead(b) + c
       IN  <<x % Base>> \o BigAddC(BigTail(a), BigTail(b), x \div Base)

BigAdd(a, b) == BigAddC(a, b, 0)

\* a - b for a >= b, not yet normalised
RECURSIVE BigSubB(_, _, _)
BigSubB(a, b, w) ==
  IF a = <<>> THEN <<>>
  ELSE LET x == Head(a) - BigHead(b) - w
       IN  IF x < 0 THEN <<x + Base>> \o BigSubB(Tail(a), BigTail(b), 1)
           ELSE <<x>> \o BigSubB(Tail(a), BigTail(b), 0)

BigSub(a, b) == BigNorm(BigSubB(a, b, 0))

\* -1, 0, 1 as a < b, a = b, a > b
RECURSIVE BigCmpTop(_, _, _)
BigCmpTop(a, b, i) ==
  IF i = 0 THEN 0
  ELSE IF a[i] < b[i] THEN -1
  ELSE IF a[i] > b[i] THEN 1
  ELSE BigCmpTop(a, b, i - 1)

BigCmp(a, b) ==
  IF Len(a) < Len(b) THEN -1
  ELSE IF Len(a) > Len(b) THEN 1
  ELSE BigCmpTop(a, b, Len(a))

\* a * n + c for a small n (n, c < 2^17), not yet normalised
RECURSIVE BigMulSmallC(_, _, _)
BigMulSmallC(a, n, c) ==
  IF a = <<>> THEN BigFromNat(c)
  ELSE LET x == Head(a) * n + c
       IN  <<x % Base>> \o BigMulSmallC(Tail(a), n, x \div Base)

BigMulSmall(a, n) == BigNorm(BigMulSmallC(a, n, 0))

RECURSIVE BigMulRec(_, _)
BigMulRec(a, b) ==
  IF a = <<>> THEN <<>>
  ELSE IF Head(a) = 0 THEN <<0>> \o BigMulRec(Tail(a), b)
  ELSE BigAdd(BigMulSmallC(b, Head(a), 0), <<0>> \o BigMulRec(Tail(a), b))

BigMul(a, b) ==
  IF a = <<>> \/ b = <<>> THEN <<>>
  ELSE IF Len(a) <= Len(b) THEN BigNorm(BigMulRec(a, b))
  ELSE BigNorm(BigMulRec(b, a))

\* quotient and remainder of a by a small n (0 < n < 2^17)
RECURSIVE BigDivSmallRec(_, _)
BigDivSmallRec(a, n) ==
  IF a = <<>> THEN [q |-> <<>>, r |-> 0]
  ELSE LET rest == BigDivSmallRec(Tail(a), n)
           x    == rest.r * Base + Head(a)
       IN  [q |-> <<x \div n>> \o rest.q, r |-> x % n]

BigDivSmall(a, n) ==
  LET d == BigDivSmallRec(a, n) IN [q |-> BigNorm(d.q), r |-> d.r]

Zeros(k) == [i \in 1..k |-> 0]

BigShl(a, k) ==
  IF a = <<>> THEN <<>>
  ELSE Zeros(k \div LimbBits) \o BigMulSmall(a, 2^(k % LimbBits))

BigShr(a, k) ==
  IF k \div LimbBits >= Len(a) THEN <<>>
  ELSE BigDivSmall(SubSeq(a, (k \div LimbBits) + 1, Len(a)), 2^(k % LimbBits)).q

BitLenSmall(x) == CHOOSE k \in 0..30 : x < 2^k /\ (k = 0 \/ 2^(k - 1) <= x)

BigBitLen(a) ==
  IF a = <<>> THEN 0 ELSE LimbBits * (Len(a) - 1) + BitLenSmall(a[Len(a)])

BigOdd(a) == a # <<>> /\ Head(a) % 2 = 1

\* The number of trailing zero bits of a # 0
RECURSIVE BigTrailingZeros(_)
BigTrailingZeros(a) ==
  IF Head(a) = 0 THEN LimbBits + BigTrailingZeros(Tail(a))
  ELSE CHOOSE t \in 0..(LimbBits - 1) : Head(a) % 2^t = 0 /\ Head(a) % 2^(t + 1) # 0


(***************************************************************************)
(* binary64 values: [s, e, m] stands for (-1)^s * m * 2^e, where m is zero *)
(* (with s = 0, e = 0) or an odd number of at most 53 bits, which makes    *)
(* the representation of a value unique.  The exponent range of binary64   *)
(* is never left by the engine's values, so e is unbounded here; a zero    *)
(* has no sign.                                                            *)
(***************************************************************************)
FZero == [s |-> 0, e |-> 0, m |-> <<>>]

\* (-1)^s * M * 2^e for M # 0 of at most 53 bits, in the unique form
FPack(s, M, e) ==
  LET t == BigTrailingZeros(M) IN [s |-> s, e |-> e + t, m |-> BigShr(M, t)]

\* The binary64 value nearest to (-1)^s * M * 2^e, ties to even
RoundPack(s, M, e) ==
  IF M = <<>> THEN FZero
  ELSE LET L == BigBitLen(M) IN
    IF L <= 53 THEN FPack(s, M, e)
    ELSE LET d    == L - 53
             q    == BigShr(M, d)
             rem  == BigSub(M, BigShl(q, d))
             c    == BigCmp(rem, BigShl(<<1>>, d - 1))
         IN  FPack(s, IF c > 0 \/ (c = 0 /\ BigOdd(q)) THEN BigAdd(q, <<1>>) ELSE q, e + d)

\* An integer n (|n| < 2^30) as a binary64 value
FInt(n) ==
  IF n = 0 THEN FZero ELSE FPack(IF n < 0 THEN 1 ELSE 0, BigFromNat(IF n < 0 THEN -n ELSE n), 0)

FNeg(x) == IF x.m = <<>> THEN x ELSE [x EXCEPT !.s = 1 - x.s]

FMul(x, y) == RoundPack((x.s + y.s) % 2, BigMul(x.m, y.m), x.e + y.e)

FAdd(x, y) ==
  IF x.m = <<>> THEN y
  ELSE IF y.m = <<>> THEN x
  ELSE LET e  == IF x.e < y.e THEN x.e ELSE y.e
           mx == BigShl(x.m, x.e - e)
           my == BigShl(y.m, y.e - e)
           c  == BigCmp(mx, my)
       IN  IF x.s = y.s THEN RoundPack(x.s, BigAdd(mx, my), e)
           ELSE IF c = 0 THEN FZero
           ELSE IF c > 0 THEN RoundPack(x.s, BigSub(mx, my), e)
           ELSE RoundPack(y.s, BigSub(my, mx), e)

FSub(x, y) == FAdd(x, FNeg(y))

\* x / n for an integer-valued divisor n, 0 < n < 2^16: 56 or more quotient
\* bits and a sticky bit for the remainder, then one rounding
FDivInt(x, n) ==
  IF x.m = <<>> THEN FZero
  ELSE LET k == 73 - BigBitLen(x.m)
           d == BigDivSmall(BigShl(x.m, k), n)
       IN  RoundPack(x.s, BigAdd(BigShl(d.q, 1), IF d.r = 0 THEN <<>> ELSE <<1>>),
                     x.e - k - 1)

\* Long division in base Base: the k quotient digits and the remainder of
\* r * Base^k by d, for r < d and a d whose highest limb is Base / 2 or more.
\* A digit is estimated from the two highest limbs and is then at most 2 too big.
BigLimb(a, i) == IF i <= Len(a) THEN a[i] ELSE 0

RECURSIVE QuotDigits(_, _, _)
QuotDigits(r, d, k) ==
  IF k = 0 THEN [q |-> <<>>, r |-> r]
  ELSE LET rb   == IF r = <<>> THEN <<>> ELSE <<0>> \o r
           n    == Len(d)
           qh   == Min(Base - 1, (BigLimb(rb, n + 1) * Base + BigLimb(rb, n)) \div d[n])
           q    == IF BigCmp(BigMulSmall(d, qh), rb) <= 0 THEN qh
                   ELSE IF BigCmp(BigMulSmall(d, qh - 1), rb) <= 0 THEN qh - 1
                   ELSE qh - 2
           rest == QuotDigits(BigSub(rb, BigMulSmall(d, q)), d, k - 1)
       IN  [q |-> rest.q \o <<q>>, r |-> rest.r]

\* x / y in general: 65 or more quotient bits and a sticky bit for the
\* remainder, then one rounding
FDiv(x, y) ==
  IF x.m = <<>> THEN FZero
  ELSE LET t  == (LimbBits - (53 % LimbBits)) % LimbBits
           kx == 53 - BigBitLen(x.m)
           ky == 53 - BigBitLen(y.m)
           n  == BigShl(x.m, kx + t)
           d  == BigShl(y.m, ky + t)
           q0 == IF BigCmp(n, d) >= 0 THEN 1 ELSE 0
           qd == QuotDigits(IF q0 = 1 THEN BigSub(n, d) ELSE n, d, 5)
           q  == BigNorm(qd.q \o <<q0>>)
       IN  RoundPack((x.s + y.s) % 2,
                     BigAdd(BigShl(q, 1), IF qd.r = <<>> THEN <<>> ELSE <<1>>),
                     (x.e - kx) - (y.e - ky) - 5 * LimbBits - 1)

\* The value of a decimal literal num/den (a literal is read as the nearest binary64)
FLit(num, den) == FDivInt(FInt(num), den)

\* literals of the code
Half        == FLit(1, 2)
Lit255      == FInt(255)
Lit0_299    == FLit(299, 1000)
Lit0_587    == FLit(587, 1000)
Lit0_114    == FLit(114, 1000)
Lit0_03     == FLit(3, 100)
Lit0_3      == FLit(3, 10)
Lit0_85     == FLit(85, 100)
Lit0_6      == FLit(6, 10)
Lit2_55     == FLit(255, 100)
Lit1_0001   == FLit(10001, 10000)

\* -1, 0, 1 as x < y, x = y, x > y
FCmpAbs(x, y) ==
  IF x.m = <<>> THEN (IF y.m = <<>> THEN 0 ELSE -1)
  ELSE IF y.m = <<>> THEN 1
  ELSE LET tx == x.e + BigBitLen(x.m)
           ty == y.e + BigBitLen(y.m)
           e  == IF x.e < y.e THEN x.e ELSE y.e
       IN  IF tx < ty THEN -1
           ELSE IF tx > ty THEN 1
           ELSE BigCmp(BigShl(x.m, x.e - e), BigShl(y.m, y.e - e))

FCmp(x, y) ==
  IF x.s # y.s THEN (IF x.s = 1 THEN -1 ELSE 1)
  ELSE IF x.s = 1 THEN -FCmpAbs(x, y)
  ELSE FCmpAbs(x, y)

FLt(x, y) == FCmp(x, y) < 0
FLe(x, y) == FCmp(x, y) <= 0
\* Math.max and Math.min of two numbers
FMax(x, y) == IF FLt(x, y) THEN y ELSE x
FMin(x, y) == IF FLt(y, x) THEN y ELSE x

\* Math.floor, for values of magnitude below 2^30
FFloor(x) ==
  IF x.m = <<>> THEN 0
  ELSE IF x.e >= 0 THEN (IF x.s = 1 THEN -1 ELSE 1) * BigToNat(BigShl(x.m, x.e))
  ELSE IF x.s = 0 THEN BigToNat(BigShr(x.m, -x.e))
  ELSE -(BigToNat(BigShr(x.m, -x.e)) + 1)

\* Math.round: the nearest integer, a tie going up
FRound(x) ==
  LET n == FFloor(x)
  IN  IF FLt(FSub(x, FInt(n)), Half) THEN n ELSE n + 1

\* A store into a Uint8ClampedArray: clamped to 0..255, the nearest integer,
\* a tie going to the even one
ToUint8Clamp(x) ==
  IF FLe(x, FZero) THEN 0
  ELSE IF FLe(Lit255, x) THEN 255
  ELSE LET n == FFloor(x)
           c == FCmp(FSub(x, FInt(n)), Half)
       IN  IF c < 0 THEN n
           ELSE IF c > 0 THEN n + 1
           ELSE IF n % 2 = 0 THEN n ELSE n + 1

\* null and undefined, and a variable that holds nothing yet
Null == [null |-> TRUE]

(***************************************************************************)
(* Settings.  lineWeight is a fractional number and is kept as a binary64  *)
(* value; the other numeric fields hold integers.                          *)
(***************************************************************************)
PatternStyle == {"line-h", "line-v", "cross", "diagonal", "dots", "concentric", "wave"}

DEFAULT_SETTINGS ==
  [gridSize |-> 80, pattern |-> "line-h", lineWeight |-> FInt(1), contrast |-> 0,
   brightness |-> 0, sharpen |-> 0, invert |-> FALSE, colorMode |-> FALSE,
   bgOpacity |-> 100]

(***************************************************************************)
(* Pixel buffers: [width, height, data], data being the RGBA bytes row by  *)
(* row.  The code's data[i] is data[i + 1] here (sequences start at 1).    *)
(***************************************************************************)
At(data, i) == data[i + 1]

\* applyBrightnessContrast: the bytes the in-place loop leaves in data
BCChannel(v, factor, b) ==
  ToUint8Clamp(FMax(FZero, FMin(Lit255,
    FAdd(FAdd(FMul(factor, FInt(v - 128)), FInt(128)), b))))

applyBrightnessContrast(data, brightness, contrast) ==
  LET b      == FMul(FInt(brightness), Lit2_55)
      c      == FDivInt(FInt(contrast), 100)
      factor == FDiv(FAdd(FInt(1), c), FSub(Lit1_0001, c))
  IN  [j \in 1..Len(data) |->
         IF (j - 1) % 4 = 3 THEN data[j] ELSE BCChannel(data[j], factor, b)]

\* applySharpen for amount > 0: the inner pixels of out
SharpenChannel(src, w, x, y, ch, k) ==
  LET idx    == (y * w + x) * 4
      up     == ((y - 1) * w + x) * 4
      dn     == ((y + 1) * w + x) * 4
      lt     == (y * w + x - 1) * 4
      rt     == (y * w + x + 1) * 4
      center == At(src, idx + ch)
  IN  ToUint8Clamp(FMax(FZero, FMin(Lit255,
        FAdd(FInt(center),
             FMul(k, FInt(4 * center - At(src, up + ch) - At(src, dn + ch)
                          - At(src, lt + ch) - At(src, rt + ch)))))))

\* the inner loop writing into the buffer it reads: the buffer after the
\* first n pixels, in the order of the loop
RECURSIVE SharpenInPlaceUpTo(_, _, _, _, _)
SharpenInPlaceUpTo(src, w, h, k, n) ==
  IF n <= 0 THEN src
  ELSE LET prev == SharpenInPlaceUpTo(src, w, h, k, n - 1)
           x    == (n - 1) % w
           y    == (n - 1) \div w
       IN  IF prev # <<>> /\ 1 <= y /\ y < h - 1 /\ 1 <= x /\ x < w - 1
           THEN [j \in 1..Len(src) |->
                   IF (j - 1) \div 4 = n - 1
                   THEN (IF (j - 1) % 4 < 3
                         THEN SharpenChannel(prev, w, x, y, (j - 1) % 4, k) ELSE 255)
                   ELSE prev[j]]
           ELSE prev

SharpenInnerInPlace(src, w, h, k) ==
  LET r == SharpenInPlaceUpTo(src, w, h, k, w * h)
  IN  [j \in 1..(4 * w * h) |->
         LET p == (j - 1) \div 4
         IN  IF 1 <= p \div w /\ p \div w < h - 1 /\ 1 <= p % w /\ p % w < w - 1
             THEN r[j] ELSE 0]

SharpenInner(src, w, h, k) ==
  [j \in 1..(4 * w * h) |->
     LET p  == (j - 1) \div 4
         ch == (j - 1) % 4
         x  == p % w
         y  == p \div w
     IN  IF 1 <= y /\ y < h - 1 /\ 1 <= x /\ x < w - 1
         THEN (IF ch < 3 THEN SharpenChannel(src, w, x, y, ch, k) ELSE 255)
         ELSE 0]

\* the first loop of the border copy: the first and the last row
SharpenCopyRows(d, src, w, h) ==
  [j \in 1..Len(d) |->
     LET y == ((j - 1) \div 4) \div w
     IN  IF y = 0 \/ y = h - 1 THEN src[j] ELSE d[j]]

\* the second loop copying the first column only
SharpenCopyColsLeft(d, src, w, h) ==
  [j \in 1..Len(d) |->
     LET x == ((j - 1) \div 4) % w
     IN  IF x = 0 THEN src[j] ELSE d[j]]

\* the second loop of the border copy: the first and the last column
SharpenCopyCols(d, src, w, h) ==
  [j \in 1..Len(d) |->
     LET x == ((j - 1) \div 4) % w
     IN  IF x = 0 \/ x = w - 1 THEN src[j] ELSE d[j]]

\* applySharpen with amount > 0: the new ImageData
SharpenOut(img, amount) ==
  LET w == img.width
      h == img.height
      k == FDivInt(FInt(amount), 100)
  IN  [width |-> w, height |-> h,
       data |-> SharpenCopyCols(SharpenCopyRows(SharpenInner(img.data, w, h, k),
                                                img.data, w, h),
                                img.data, w, h)]

(***************************************************************************)
(* regionStats.  The sums of the colour channels are sums of integers and  *)
(* exact in binary64; sumL, inv and the four means are binary64 values.    *)
(***************************************************************************)
\* one pass of the inner loop body, at pixel (x, y)
RegionPixel(acc, data, imgW, x, y) ==
  LET idx == (y * imgW + x) * 4
      r   == At(data, idx)
      g   == At(data, idx + 1)
      b   == At(data, idx + 2)
  IN  [sumL  |-> FAdd(acc.sumL,
                      FAdd(FAdd(FMul(Lit0_299, FInt(r)),
                                FMul(Lit0_587, FInt(g))),
                           FMul(Lit0_114, FInt(b)))),
       sumR  |-> acc.sumR + r,
       sumG  |-> acc.sumG + g,
       sumB  |-> acc.sumB + b,
       count |-> acc.count + 1]

\* the inner loop over the first j pixels of row y, entered with the sums acc
RECURSIVE RegionRow(_, _, _, _, _, _)
RegionRow(acc, data, imgW, x0, y, j) ==
  IF j <= 0 THEN acc
  ELSE RegionPixel(RegionRow(acc, data, imgW, x0, y, j - 1), data, imgW, x0 + j - 1, y)

\* the outer loop over the first n rows (the sums of the rows before row n are
\* complete, count included, when row n is entered)
RECURSIVE RegionRows(_, _, _, _, _, _)
RegionRows(data, imgW, x0, y0, cw, n) ==
  IF n <= 0 THEN [sumL |-> FZero, sumR |-> 0, sumG |-> 0, sumB |-> 0, count |-> 0]
  ELSE LET before == RegionRows(data, imgW, x0, y0, cw, n - 1)
       IN  IF before.count = cw * (n - 1)
           THEN RegionRow(before, data, imgW, x0, y0 + n - 1, cw)
           ELSE before

\* the sums when the two loops are left
RegionSums(data, imgW, x0, y0, cw, ch) == RegionRows(data, imgW, x0, y0, cw, ch)

\* what regionStats returns when the loops leave the sums acc
RegionResult(acc) ==
  LET inv == FDivInt(FInt(1), acc.count)
  IN  IF acc.count = 0
      THEN [luminance |-> Lit255, r |-> Lit255, g |-> Lit255, b |-> Lit255]
      ELSE [luminance |-> FMul(acc.sumL, inv), r |-> FMul(FInt(acc.sumR), inv),
            g |-> FMul(FInt(acc.sumG), inv), b |-> FMul(FInt(acc.sumB), inv)]

regionStats(data, imgW, x0, y0, cw, ch) == RegionResult(RegionSums(data, imgW, x0, y0, cw, ch))

(***************************************************************************)
(* Grid calculations of convertToPixelArt                                  *)
(***************************************************************************)
CellW(W, gridSize) == FDivInt(FInt(W), gridSize)

AspectRatio(W, H) == FDivInt(FInt(H), W)

\* the row count without the Math.max(1, ...)
GridHUnclamped(W, H, gridSize) == FRound(FMul(FInt(gridSize), AspectRatio(W, H)))

GridH(W, H, gridSize) == Max(1, FRound(FMul(FInt(gridSize), AspectRatio(W, H))))

\* H / gridH; a division by 0 gives Infinity
Infinity == [s |-> 0, e |-> 0, m |-> "Infinity"]

CellH(H, gridH) == IF gridH = 0 THEN Infinity ELSE FDivInt(FInt(H), gridH)

\* x0, y0, cw and ch2 of the cell (gx, gy)
CellX0(gx, cellW) == FFloor(FMul(FInt(gx), cellW))

\* the width with the right edge rounded to the nearest pixel
CellCwRounded(gx, cellW) == FRound(FMul(FInt(gx + 1), cellW)) - CellX0(gx, cellW)

CellCw(gx, cellW) == FFloor(FMul(FInt(gx + 1), cellW)) - CellX0(gx, cellW)

CellBounds(gx, gy, cellW, cellH) ==
  [x0 |-> CellX0(gx, cellW), y0 |-> CellX0(gy, cellH),
   cw |-> CellCw(gx, cellW), ch |-> CellCw(gy, cellH)]

\* 1 - luminance / 255, inverted when invert is set
Darkness(luminance, invert) ==
  LET d == FSub(FInt(1), FDivInt(luminance, 255))
  IN  IF invert THEN FSub(FInt(1), d) ELSE d

\* the skip test with the threshold 0.3
SkipCellTenfold(darkness) == FLt(darkness, Lit0_3)

\* if (darkness < 0.03) continue
SkipCell(darkness) == FLt(darkness, Lit0_03)

LineThick(cw, ch, darkness, lineWeight) ==
  LET maxThick == FMul(FInt(Min(cw, ch)), Lit0_85)
  IN  FMax(Lit0_3, FMul(FMul(darkness, maxThick), lineWeight))

(***************************************************************************)
(* Colours are [r, g, b, a] with a binary64 alpha.                         *)
(***************************************************************************)
Rgba(r, g, b, a) == [r |-> r, g |-> g, b |-> b, a |-> a]

\* the background fill style
Background(invert, bgOpacity) ==
  IF invert
  THEN (IF bgOpacity >= 100 THEN Rgba(15, 15, 15, FInt(1))
        ELSE Rgba(15, 15, 15, FDivInt(FInt(bgOpacity), 100)))
  ELSE (IF bgOpacity >= 100 THEN Rgba(255, 255, 255, FInt(1))
        ELSE Rgba(255, 255, 255, FDivInt(FInt(bgOpacity), 100)))

FgBase(invert) == IF invert THEN Rgba(255, 255, 255, FInt(1)) ELSE Rgba(0, 0, 0, FInt(1))

\* the colour of a cell in colour mode
CellColor(stats, invert) ==
  LET r == FRound(IF invert THEN FSub(Lit255, stats.r) ELSE stats.r)
      g == FRound(IF invert THEN FSub(Lit255, stats.g) ELSE stats.g)
      b == FRound(IF invert THEN FSub(Lit255, stats.b) ELSE stats.b)
  IN  Rgba(255 - r, 255 - g, 255 - b, FInt(1))

\* ctx.lineWidth after the renderer of a pattern has run
RendererLineWidth(pattern, lt, lineWidth) ==
  IF pattern = "dots" THEN lineWidth
  ELSE IF pattern = "concentric" THEN FMax(Half, FMul(lt, Lit0_6))
  ELSE lt

(***************************************************************************)
(* The buffers of a call.  A reference to a buffer is its name in heap:    *)
(* "canvas" is the source canvas's backing store, "image" the ImageData    *)
(* getImageData returns, "sharp" the ImageData applySharpen creates.       *)
(***************************************************************************)
\* getImageData handing out the canvas's own store instead of a copy
getImageDataAliased(h) == [buf |-> "canvas", heap |-> h]

\* srcCtx.getImageData(0, 0, W, H): a copy of the canvas's pixels
getImageData(h) == [buf |-> "image", heap |-> [h EXCEPT !["image"] = h["canvas"]]]

\* if (brightness !== 0 && contrast !== 0)
BCGuardBoth(brightness, contrast) == brightness # 0 /\ contrast # 0

\* if (brightness !== 0 || contrast !== 0)
BCGuard(brightness, contrast) == brightness # 0 \/ contrast # 0

\* applySharpen returning early only for amount < 0
applySharpenStrict(h, buf, amount) ==
  IF amount < 0 THEN [buf |-> buf, heap |-> h]
  ELSE [buf |-> "sharp", heap |-> [h EXCEPT !["sharp"] = SharpenOut(h[buf], amount)]]

\* applySharpen: the buffer it returns and the buffers after it
applySharpen(h, buf, amount) ==
  IF amount <= 0 THEN [buf |-> buf, heap |-> h]
  ELSE [buf |-> "sharp", heap |-> [h EXCEPT !["sharp"] = SharpenOut(h[buf], amount)]]

\* if (sharpen > 0) imgData = applySharpen(imgData, sharpen)
SharpenStep(h, buf, sharpen) ==
  IF sharpen > 0 THEN applySharpen(h, buf, sharpen) ELSE [buf |-> buf, heap |-> h]

\* performance.now() is a clock: the rounded time a call took is any of these
Elapsed == {0, 1}

\* the style a 2d context starts with
DefaultStyle == Rgba(0, 0, 0, FInt(1))

(***************************************************************************)
(* convertToPixelArt, one step at a time.  A call runs to its end before   *)
(* the next one starts (the function is synchronous).  frame.visited and   *)
(* frame.skipped count the passes of the cell loop and those of them that  *)
(* left the cell at the continue of line 342.                              *)
(***************************************************************************)
Uniform(w, h, v) ==
  [width |-> w, height |-> h,
   data |-> [j \in 1..(4 * w * h) |-> IF (j - 1) % 4 = 3 THEN 255 ELSE v]]

RampLevels == <<255, 250, 230, 128, 0, 64, 200, 255, 247, 100, 30, 180>>

\* 12 x 3 pixels: a grey first row (white, nearly white, light, dark), two coloured rows
Ramp ==
  [width |-> 12, height |-> 3,
   data |-> [j \in 1..144 |->
               LET p  == (j - 1) \div 4
                   ch == (j - 1) % 4
                   x  == p % 12
                   y  == p \div 12
               IN  IF ch = 3 THEN 255 ELSE RampLevels[((x + ch * y) % 12) + 1]]]

Canvases == {Ramp, Uniform(12, 2, 255), Uniform(11, 2, 0), Uniform(4, 1, 0)}

SettingsMenu ==
  {[DEFAULT_SETTINGS EXCEPT !.gridSize = 10],
   [DEFAULT_SETTINGS EXCEPT !.gridSize = 10, !.invert = TRUE, !.colorMode = TRUE,
                            !.pattern = "dots", !.bgOpacity = 50],
   [DEFAULT_SETTINGS EXCEPT !.gridSize = 10, !.contrast = 20, !.pattern = "concentric",
                            !.invert = TRUE],
   [DEFAULT_SETTINGS EXCEPT !.gridSize = 10, !.brightness = -10, !.sharpen = 40,
                            !.pattern = "diagonal", !.lineWeight = FLit(3, 2)]}

Init ==
  /\ heap \in {[canvas |-> c, image |-> Null, sharp |-> Null] : c \in Canvases}
  /\ settings = Null
  /\ pc = "idle"
  /\ frame = Null
  /\ ctx = Null
  /\ out = Null
  /\ cell = Null
  /\ result = Null
  /\ ref = Null
  /\ geo = Null
  /\ shp = Null
  /\ rgn = Null
  /\ pass = Null
  /\ exp = Null
  /\ panel = Null
  /\ page = Null
  /\ ring = Null
  /\ load = Null
  /\ draw = Null
  /\ view = Null

\* lines 289-293: the call starts and reads the source canvas
Call(s) ==
  /\ pc \in {"idle", "done"}
  /\ LET g == getImageData(heap)
     IN  /\ heap' = [g.heap EXCEPT !["sharp"] = Null]
         /\ frame' = [imgData |-> g.buf, bcRan |-> FALSE,
                      W |-> heap["canvas"].width, H |-> heap["canvas"].height,
                      cellW |-> Null, gridH |-> Null, cellH |-> Null, gx |-> 0, gy |-> 0,
                      visited |-> 0, skipped |-> 0]
  /\ settings' = s
  /\ pc' = "bc"
  /\ ctx' = Null
  /\ out' = Null
  /\ cell' = Null
  /\ result' = Null
  /\ UNCHANGED <<ref, geo, shp, rgn,
               pass, exp, panel, page, ring, load, draw, view>>

\* line 296: the brightness and contrast pass, in place on imgData.data
Preprocess ==
  /\ pc = "bc"
  /\ IF BCGuard(settings.brightness, settings.contrast)
     THEN /\ heap' = [heap EXCEPT ![frame.imgData].data =
                        applyBrightnessContrast(@, settings.brightness, settings.contrast)]
          /\ frame' = [frame EXCEPT !.bcRan = TRUE]
     ELSE UNCHANGED <<heap, frame>>
  /\ pc' = "sharpen"
  /\ UNCHANGED <<settings, ctx, out, cell, result, ref, geo, shp, rgn,
               pass, exp, panel, page, ring, load, draw, view>>

\* lines 297-298
Sharpen ==
  /\ pc = "sharpen"
  /\ \E r \in {SharpenStep(heap, frame.imgData, settings.sharpen)} :
       /\ heap' = r.heap
       /\ frame' = [frame EXCEPT !.imgData = r.buf]
  /\ pc' = "grid"
  /\ UNCHANGED <<settings, ctx, out, cell, result, ref, geo, shp, rgn,
               pass, exp, panel, page, ring, load, draw, view>>

\* the context's stroke or fill style left as it is before the loop
PresetStyleSkipped(colorMode, fg, current) == current

\* lines 326-329: the stroke or fill style of the context when the loop starts
PresetStyle(colorMode, fg, current) == IF colorMode THEN current ELSE fg

\* lines 301-329: the grid, the output canvas, its background and the drawing setup
Setup ==
  /\ pc = "grid"
  /\ \E gridH \in {GridH(frame.W, frame.H, settings.gridSize)},
        bg \in {Background(settings.invert, settings.bgOpacity)},
        fg \in {FgBase(settings.invert)} :
       /\ frame' = [frame EXCEPT !.cellW = CellW(frame.W, settings.gridSize),
                                 !.gridH = gridH,
                                 !.cellH = CellH(frame.H, gridH)]
       /\ out' = [width |-> frame.W, height |-> frame.H,
                  ops |-> <<[op |-> "fillRect", x |-> 0, y |-> 0,
                             w |-> frame.W, h |-> frame.H, fillStyle |-> bg]>>]
       /\ ctx' = [fillStyle   |-> PresetStyle(settings.colorMode, fg, bg),
                  strokeStyle |-> PresetStyle(settings.colorMode, fg, DefaultStyle),
                  lineWidth   |-> FInt(1),
                  lineCap |-> "butt", lineJoin |-> "miter"]
       /\ pc' = IF gridH > 0 /\ settings.gridSize > 0 THEN "cell" ELSE "ret"
  /\ UNCHANGED <<heap, settings, cell, result, ref, geo, shp, rgn,
               pass, exp, panel, page, ring, load, draw, view>>

\* lines 340-341 and 347-351: the darkness of a cell with the statistics
\* stats, and its colour in colour mode
CellShade(s, stats) ==
  [darkness |-> Darkness(stats.luminance, s.invert),
   color    |-> IF s.colorMode THEN CellColor(stats, s.invert) ELSE Null]

\* lines 342-356 for the cell (gx, gy) with the bounds b and the shade sh: the
\* cell, whether it is skipped, and the context state and the renderer's call
\* if it is not
CellDraw(f, s, c, b, sh) ==
  LET lineThick == LineThick(b.cw, b.ch, sh.darkness, s.lineWeight)
      stroke    == IF s.colorMode THEN sh.color ELSE c.strokeStyle
      fill      == IF s.colorMode THEN sh.color ELSE c.fillStyle
      width     == RendererLineWidth(s.pattern, lineThick, c.lineWidth)
  IN  [cell |-> [gx |-> f.gx, gy |-> f.gy, x0 |-> b.x0, y0 |-> b.y0,
                 cw |-> b.cw, ch |-> b.ch, darkness |-> sh.darkness],
       skip |-> SkipCell(sh.darkness),
       ctx  |-> [c EXCEPT !.strokeStyle = stroke, !.fillStyle = fill, !.lineWidth = width],
       op   |-> [op |-> s.pattern, gx |-> f.gx, gy |-> f.gy,
                 x0 |-> b.x0, y0 |-> b.y0, cw |-> b.cw, ch |-> b.ch,
                 darkness |-> sh.darkness, lineThick |-> lineThick,
                 cx |-> FAdd(FInt(b.x0), FDivInt(FInt(b.cw), 2)),
                 cy |-> FAdd(FInt(b.y0), FDivInt(FInt(b.ch), 2)),
                 strokeStyle |-> stroke, fillStyle |-> fill, lineWidth |-> width]]

\* line 339 and on, for the bounds b
CellAt(f, s, data, c, b) ==
  CellDraw(f, s, c, b, CellShade(s, regionStats(data, f.W, b.x0, b.y0, b.cw, b.ch)))

\* lines 334-356: the loop body for the cell (f.gx, f.gy) of the call with the
\* locals f, the settings s, the pixels data and the context state c
CellBody(f, s, data, c) == CellAt(f, s, data, c, CellBounds(f.gx, f.gy, f.cellW, f.cellH))

\* lines 332-358: one pass of the loop
Cell ==
  /\ pc = "cell"
  /\ \E r \in {CellBody(frame, settings, heap[frame.imgData].data, ctx)},
        lastCol \in {frame.gx + 1 >= settings.gridSize} :
       /\ cell' = r.cell
       /\ IF r.skip
          THEN UNCHANGED <<ctx, out>>
          ELSE /\ ctx' = r.ctx
               /\ out' = [out EXCEPT !.ops = Append(@, r.op)]
       /\ frame' = [frame EXCEPT !.gx = IF lastCol THEN 0 ELSE @ + 1,
                                 !.gy = IF lastCol THEN @ + 1 ELSE @,
                                 !.visited = @ + 1,
                                 !.skipped = IF r.skip THEN @ + 1 ELSE @]
       /\ pc' = IF lastCol /\ frame.gy + 1 >= frame.gridH THEN "ret" ELSE "cell"
  /\ UNCHANGED <<heap, settings, result, ref, geo, shp, rgn,
               pass, exp, panel, page, ring, load, draw, view>>

\* totalCells as the sum of the two counts
TotalCellsSum(gridSize, gridH) == gridSize + gridH

\* line 365
TotalCells(gridSize, gridH) == gridSize * gridH

\* lines 360-366
Return ==
  /\ pc = "ret"
  /\ \E ms \in Elapsed :
       result' = [canvas |-> out, processingTimeMs |-> ms,
                  gridCols |-> settings.gridSize, gridRows |-> frame.gridH,
                  totalCells |-> TotalCells(settings.gridSize, frame.gridH)]
  /\ ref' = IF ref = Null
            THEN [settings |-> settings, canvas |-> out,
                  gridCols |-> settings.gridSize, gridRows |-> frame.gridH,
                  totalCells |-> TotalCells(settings.gridSize, frame.gridH), between |-> FALSE]
            ELSE [ref EXCEPT !.between = @ \/ settings # ref.settings]
  /\ pc' = "done"
  /\ UNCHANGED <<heap, settings, frame, ctx, out, cell, geo, shp, rgn,
               pass, exp, panel, page, ring, load, draw, view>>

Next ==
  \/ \E s \in SettingsMenu : Call(s)
  \/ Preprocess
  \/ Sharpen
  \/ Setup
  \/ Cell
  \/ Return

Spec == Init /\ [][Next]_vars

(***************************************************************************)
(* Properties of convertToPixelArt                                         *)
(***************************************************************************)
\* the renderer calls recorded on the output canvas for the cell (gx, gy)
OpsOfCell(gx, gy) ==
  {i \in 1..Len(out.ops) :
     out.ops[i].op # "fillRect" /\ out.ops[i].gx = gx /\ out.ops[i].gy = gy}

AllPixels(img, v) ==
  \A j \in 1..Len(img.data) : (j - 1) % 4 = 3 \/ img.data[j] = v

NeutralPreprocessing == settings.brightness = 0 /\ settings.contrast = 0 /\ settings.sharpen = 0

\* C2: a call changes neither the pixels of the source canvas nor the settings
\* object, also when the brightness and contrast pass runs; and a call with
\* the settings of the first call on the canvas returns the first call's
\* output (the same drawing on a canvas of the same size) and the same
\* gridCols, gridRows and totalCells, whatever calls ran in between.
C2_SourceKeptAndCallsRepeat ==
  /\ [][/\ heap'["canvas"] = heap["canvas"]
        /\ (pc \notin {"idle", "done"} => settings' = settings)]_vars
  /\ [](pc = "done" /\ settings = ref.settings =>
          /\ result.canvas = ref.canvas
          /\ result.gridCols = ref.gridCols
          /\ result.gridRows = ref.gridRows
          /\ result.totalCells = ref.totalCells)

\* a call that ran the in-place pass has returned, it repeats the first
\* call's settings, and a call with other settings ran in between
C2_Witness ==
  /\ pc = "done"
  /\ settings = ref.settings
  /\ ref.between
  /\ frame.bcRan
  /\ Len(result.canvas.ops) > 1

\* C3: the renderer is called for a cell exactly when the cell's darkness is
\* 0.03 or more, and never twice for one cell; a call on an all-white canvas
\* without inversion and with neutral preprocessing calls it for no cell and
\* returns the background fill alone.
C3_RenderedIffDarkEnough ==
  /\ cell # Null =>
       Cardinality(OpsOfCell(cell.gx, cell.gy)) = IF FLe(Lit0_03, cell.darkness) THEN 1 ELSE 0
  /\ out # Null =>
       \A i, j \in 2..Len(out.ops) :
          out.ops[i].gx = out.ops[j].gx /\ out.ops[i].gy = out.ops[j].gy => i = j
  /\ (pc = "done" /\ AllPixels(heap["canvas"], 255) /\ ~settings.invert /\ NeutralPreprocessing) =>
       /\ Len(result.canvas.ops) = 1
       /\ result.canvas.ops[1].op = "fillRect"
       /\ result.canvas.ops[1].fillStyle = Background(FALSE, settings.bgOpacity)

\* the renderer was called for the cell just visited, and was not for a cell before it
C3_Witness ==
  /\ cell # Null
  /\ FLe(Lit0_03, cell.darkness)
  /\ Cardinality(OpsOfCell(cell.gx, cell.gy)) = 1
  /\ Len(out.ops) - 1 < cell.gy * settings.gridSize + cell.gx + 1

\* C4: on an all-black canvas, with the default settings apart from a
\* gridSize in 10..200, every cell has darkness 1 and has the renderer
\* called exactly once.
C4_AllBlackEveryCellRendered ==
  (/\ cell # Null
   /\ AllPixels(heap["canvas"], 0)
   /\ settings.gridSize \in 10..200
   /\ settings = [DEFAULT_SETTINGS EXCEPT !.gridSize = settings.gridSize]) =>
     /\ cell.darkness = FInt(1)
     /\ Cardinality(OpsOfCell(cell.gx, cell.gy)) = 1

\* C8: the brightness and contrast pass runs exactly when brightness or
\* contrast is not 0; when both are 0 the pixels after the step are the
\* source canvas's pixels.
C8_NeutralPassSkipped ==
  pc \in {"sharpen", "grid", "cell", "ret", "done"} =>
    /\ frame.bcRan <=> (settings.brightness # 0 \/ settings.contrast # 0)
    /\ (settings.brightness = 0 /\ settings.contrast = 0) =>
         heap["image"].data = heap["canvas"].data

\* the step was passed with both values 0, on the canvas with mixed pixels
C8_Witness ==
  /\ pc = "sharpen"
  /\ settings.brightness = 0
  /\ settings.contrast = 0
  /\ ~frame.bcRan
  /\ heap["canvas"] = Ramp

\* C12: without colour mode every renderer call draws with the fixed
\* foreground, white with invert and black without, as stroke and as fill
\* style, whatever the colour of the cell sampled; and the context's stroke
\* and fill style stay that foreground all through the loop.
C12_FixedForeground ==
  (pc \in {"cell", "ret", "done"} /\ ~settings.colorMode) =>
    LET fg == IF settings.invert THEN Rgba(255, 255, 255, FInt(1)) ELSE Rgba(0, 0, 0, FInt(1))
    IN  /\ ctx.strokeStyle = fg
        /\ ctx.fillStyle = fg
        /\ \A i \in 2..Len(out.ops) :
             out.ops[i].strokeStyle = fg /\ out.ops[i].fillStyle = fg

\* a call without colour mode and with invert has drawn a cell of the canvas
\* with coloured pixels whose mean red, green and blue differ
C12_Witness ==
  /\ pc = "cell"
  /\ ~settings.colorMode
  /\ settings.invert
  /\ heap["canvas"] = Ramp
  /\ cell # Null
  /\ cell.gy > 0
  /\ Cardinality(OpsOfCell(cell.gx, cell.gy)) = 1
  /\ LET st == regionStats(heap[frame.imgData].data, frame.W, cell.x0, cell.y0, cell.cw, cell.ch)
     IN  st.r # st.g

\* C14: the result reports gridCols = settings.gridSize, gridRows = the row
\* count the loop ran to, and totalCells = gridCols * gridRows, which is the
\* number of cells the loop visited, rendered and skipped together; the
\* output canvas has the width and the height of the source canvas.
C14_ResultReportsGrid ==
  pc = "done" =>
    /\ result.gridCols = settings.gridSize
    /\ result.gridRows = frame.gridH
    /\ frame.gy = frame.gridH
    /\ result.totalCells = result.gridCols * result.gridRows
    /\ result.totalCells = frame.visited
    /\ frame.visited = (Len(result.canvas.ops) - 1) + frame.skipped
    /\ result.canvas.width = heap["canvas"].width
    /\ result.canvas.height = heap["canvas"].height

\* a call on the 12 x 3 canvas has returned 10 x 3 cells, some of them
\* rendered and some skipped
C14_Witness ==
  /\ pc = "done"
  /\ heap["canvas"] = Ramp
  /\ result.gridCols = 10
  /\ result.gridRows = 3
  /\ result.totalCells = 30
  /\ frame.skipped > 0
  /\ Len(result.canvas.ops) > 1
  /\ result.canvas.width = 12
  /\ result.canvas.height = 3

(***************************************************************************)
(* The grid of convertToPixelArt by itself.  The grid (lines 301-304) and  *)
(* the bounds of the cells (lines 334-337) depend on W, H and gridSize     *)
(* alone, so the loop is run here for every size of canvas and grid up to  *)
(* the bounds, without pixels.  geo.cur is the cell visited last; prevX    *)
(* is where the column before it ended (0 for column 0), prevY where the   *)
(* row before it ended (0 for row 0), wSum the widths of its row so far,   *)
(* hSum the heights of the rows so far.                                    *)
(***************************************************************************)
MaxW == 15
MaxH == 2
MaxGrid == 11

InitGrid ==
  /\ geo \in {[pc |-> "grid", W |-> W, H |-> H, gridSize |-> g,
               cellW |-> Null, gridH |-> 0, cellH |-> Null, gx |-> 0, gy |-> 0,
               cur |-> Null, prevX |-> 0, prevY |-> 0, wSum |-> 0, hSum |-> 0,
               ret |-> Null] : W \in 1..MaxW, H \in 1..MaxH, g \in 1..MaxGrid}
  /\ heap = Null
  /\ settings = Null
  /\ pc = Null
  /\ frame = Null
  /\ ctx = Null
  /\ out = Null
  /\ cell = Null
  /\ result = Null
  /\ ref = Null
  /\ shp = Null
  /\ rgn = Null
  /\ pass = Null
  /\ exp = Null
  /\ panel = Null
  /\ page = Null
  /\ ring = Null
  /\ load = Null
  /\ draw = Null
  /\ view = Null

\* lines 301-304
GridSetup ==
  /\ geo.pc = "grid"
  /\ \E gridH \in {GridH(geo.W, geo.H, geo.gridSize)} :
       geo' = [geo EXCEPT !.cellW = CellW(geo.W, geo.gridSize),
                          !.gridH = gridH,
                          !.cellH = CellH(geo.H, gridH),
                          !.pc = IF gridH > 0 /\ geo.gridSize > 0 THEN "cell" ELSE "ret"]
  /\ UNCHANGED <<heap, settings, pc, frame, ctx, out, cell, result, ref, shp, rgn,
               pass, exp, panel, page, ring, load, draw, view>>

\* lines 332-337: one pass of the loop, as far as the bounds go
GridCell ==
  /\ geo.pc = "cell"
  /\ \E b \in {CellBounds(geo.gx, geo.gy, geo.cellW, geo.cellH)},
        lastCol \in {geo.gx + 1 >= geo.gridSize} :
       geo' = [geo EXCEPT
                 !.cur   = [gx |-> geo.gx, gy |-> geo.gy,
                            x0 |-> b.x0, y0 |-> b.y0, cw |-> b.cw, ch |-> b.ch],
                 !.prevX = IF geo.gx = 0 THEN 0 ELSE geo.cur.x0 + geo.cur.cw,
                 !.wSum  = (IF geo.gx = 0 THEN 0 ELSE @) + b.cw,
                 !.prevY = IF geo.gx # 0 THEN @
                           ELSE IF geo.gy = 0 THEN 0 ELSE geo.cur.y0 + geo.cur.ch,
                 !.hSum  = IF geo.gx # 0 THEN @ ELSE (IF geo.gy = 0 THEN 0 ELSE @) + b.ch,
                 !.gx    = IF lastCol THEN 0 ELSE @ + 1,
                 !.gy    = IF lastCol THEN @ + 1 ELSE @,
                 !.pc    = IF lastCol /\ geo.gy + 1 >= geo.gridH THEN "ret" ELSE "cell"]
  /\ UNCHANGED <<heap, settings, pc, frame, ctx, out, cell, result, ref, shp, rgn,
               pass, exp, panel, page, ring, load, draw, view>>

\* lines 360-366, the grid counts
GridReturn ==
  /\ geo.pc = "ret"
  /\ geo' = [geo EXCEPT !.ret = [gridCols |-> geo.gridSize, gridRows |-> geo.gridH,
                                 totalCells |-> geo.gridSize * geo.gridH],
                        !.pc = "done"]
  /\ UNCHANGED <<heap, settings, pc, frame, ctx, out, cell, result, ref, shp, rgn,
               pass, exp, panel, page, ring, load, draw, view>>

NextGrid == GridSetup \/ GridCell \/ GridReturn

SpecGrid == InitGrid /\ [][NextGrid]_vars

\* C1: the cells tile the buffer: column 0 starts at 0, every column starts
\* where the one before it ends, and so do the rows; the widths of the
\* columns of a row sum to W and the heights of the rows sum to H.
C1_CellsTileBuffer ==
  geo.cur # Null =>
    /\ geo.cur.x0 = geo.prevX
    /\ geo.cur.y0 = geo.prevY
    /\ geo.cur.gx = geo.gridSize - 1 => geo.wSum = geo.W
    /\ geo.cur.gy = geo.gridH - 1 => geo.hSum = geo.H

C5_GridRowsAtLeastOne ==
  /\ geo.pc # "grid" => geo.gridH >= 1
  /\ geo.pc = "done" => geo.ret.gridRows >= 1

\* the grid of a canvas so wide that gridSize * H / W rounds to 0
C5_Witness ==
  /\ geo.pc = "done"
  /\ FRound(FMul(FInt(geo.gridSize), FDivInt(FInt(geo.H), geo.W))) = 0
  /\ geo.ret.gridRows = 1

\* C6: for a gridSize in 10..200 every cell the loop visits has a width and
\* a height of 1 or more.
C6_CellsHavePositiveArea ==
  (geo.cur # Null /\ geo.gridSize \in 10..200) => (geo.cur.cw >= 1 /\ geo.cur.ch >= 1)

(***************************************************************************)
(* applySharpen by itself, on buffers of every size up to MaxSide with     *)
(* varied bytes in all four channels: called as it stands, and as lines    *)
(* 297-298 of convertToPixelArt call it.  shp.input is the buffer as it    *)
(* was passed in.                                                          *)
(***************************************************************************)
MaxSide == 4

Amounts == {-25, 0, 40, 100}

TestImage(w, h, seed) ==
  [width |-> w, height |-> h,
   data |-> [j \in 1..(4 * w * h) |-> (seed * j + 11 * j * j) % 256]]

SharpenInputs == {TestImage(w, h, seed) : w \in 1..MaxSide, h \in 1..MaxSide, seed \in {37, 101}}

InitSharpen ==
  /\ shp \in {[pc |-> "start", heap |-> [image |-> img, sharp |-> Null], buf |-> "image",
               input |-> img, amount |-> a] : img \in SharpenInputs, a \in Amounts}
  /\ heap = Null
  /\ settings = Null
  /\ pc = Null
  /\ frame = Null
  /\ ctx = Null
  /\ out = Null
  /\ cell = Null
  /\ result = Null
  /\ ref = Null
  /\ geo = Null
  /\ rgn = Null
  /\ pass = Null
  /\ exp = Null
  /\ panel = Null
  /\ page = Null
  /\ ring = Null
  /\ load = Null
  /\ draw = Null
  /\ view = Null

\* applySharpen(imageData, amount)
ApplySharpen ==
  /\ shp.pc = "start"
  /\ \E r \in {applySharpen(shp.heap, shp.buf, shp.amount)} :
       shp' = [shp EXCEPT !.heap = r.heap, !.buf = r.buf, !.pc = "applied"]
  /\ UNCHANGED <<heap, settings, pc, frame, ctx, out, cell, result, ref, geo, rgn,
               pass, exp, panel, page, ring, load, draw, view>>

\* lines 297-298 with sharpen = amount
ConvertSharpen ==
  /\ shp.pc = "start"
  /\ \E r \in {SharpenStep(shp.heap, shp.buf, shp.amount)} :
       shp' = [shp EXCEPT !.heap = r.heap, !.buf = r.buf, !.pc = "stepped"]
  /\ UNCHANGED <<heap, settings, pc, frame, ctx, out, cell, result, ref, geo, rgn,
               pass, exp, panel, page, ring, load, draw, view>>

NextSharpen == ApplySharpen \/ ConvertSharpen

SpecSharpen == InitSharpen /\ [][NextSharpen]_vars

\* C9: for an amount of 0 or less applySharpen returns the buffer it was
\* given, with every byte as it was, and creates no other; with sharpen = 0
\* convertToPixelArt goes on with the buffer the step before left.
C9_SharpenIdentity ==
  /\ (shp.pc = "applied" /\ shp.amount <= 0) =>
       /\ shp.buf = "image"
       /\ shp.heap["image"] = shp.input
       /\ shp.heap["sharp"] = Null
  /\ (shp.pc = "stepped" /\ shp.amount = 0) =>
       /\ shp.buf = "image"
       /\ shp.heap[shp.buf].data = shp.input.data

\* applySharpen has returned from a call with a negative amount on a 3 x 3 buffer
C9_Witness ==
  /\ shp.pc = "applied"
  /\ shp.amount < 0
  /\ shp.input.width = 3
  /\ shp.input.height = 3
  /\ shp.buf = "image"

\* C10: for an amount above 0 the buffer applySharpen returns has the size of
\* its input and, at every pixel of the first and last row and of the first
\* and last column, the input's four channels.
C10_SharpenKeepsBorder ==
  (shp.pc \in {"applied", "stepped"} /\ shp.amount > 0) =>
    /\ shp.heap[shp.buf].width = shp.input.width
    /\ shp.heap[shp.buf].height = shp.input.height
    /\ \A x \in 0..(shp.input.width - 1), y \in 0..(shp.input.height - 1), ch \in 0..3 :
         (x = 0 \/ x = shp.input.width - 1 \/ y = 0 \/ y = shp.input.height - 1) =>
           At(shp.heap[shp.buf].data, (y * shp.input.width + x) * 4 + ch)
             = At(shp.input.data, (y * shp.input.width + x) * 4 + ch)

\* a 3 x 3 buffer was sharpened: its inner pixel changed, and a border pixel
\* has an alpha other than 255
C10_Witness ==
  /\ shp.pc = "applied"
  /\ shp.amount > 0
  /\ shp.input.width = 3
  /\ shp.input.height = 3
  /\ shp.buf = "sharp"
  /\ \E ch \in 0..2 : At(shp.heap["sharp"].data, 16 + ch) # At(shp.input.data, 16 + ch)
  /\ At(shp.input.data, 23) # 255
  /\ At(shp.heap["sharp"].data, 23) = At(shp.input.data, 23)

\* the value line 158 assigns at channel ch of pixel (x, y), from the bytes of
\* the buffer that was passed in, as the byte array stores it
SharpenExpected(x, y, ch) ==
  LET w      == shp.input.width
      src    == shp.input.data
      center == At(src, (y * w + x) * 4 + ch)
      lap    == 4 * center - At(src, ((y - 1) * w + x) * 4 + ch)
                           - At(src, ((y + 1) * w + x) * 4 + ch)
                           - At(src, (y * w + x - 1) * 4 + ch)
                           - At(src, (y * w + x + 1) * 4 + ch)
      value  == FAdd(FInt(center), FMul(FDivInt(FInt(shp.amount), 100), FInt(lap)))
  IN  ToUint8Clamp(IF FLt(value, FZero) THEN FZero
                   ELSE IF FLt(Lit255, value) THEN Lit255 ELSE value)

\* C19: for an amount above 0 applySharpen returns a new buffer of the width
\* and height of its input and leaves the input's bytes as they were; every
\* colour channel of every inner pixel is center + k * (4 * center - up -
\* down - left - right), clamped to 0..255, of the input's bytes alone,
\* whatever was written to the output before.
C19_SharpenReadsSourceOnly ==
  (shp.pc \in {"applied", "stepped"} /\ shp.amount > 0) =>
    /\ shp.buf = "sharp"
    /\ shp.heap["image"] = shp.input
    /\ shp.heap["sharp"].width = shp.input.width
    /\ shp.heap["sharp"].height = shp.input.height
    /\ Len(shp.heap["sharp"].data) = Len(shp.input.data)
    /\ \A x \in 1..(shp.input.width - 2), y \in 1..(shp.input.height - 2), ch \in 0..2 :
         At(shp.heap["sharp"].data, (y * shp.input.width + x) * 4 + ch)
           = SharpenExpected(x, y, ch)

\* a 4 x 3 buffer was sharpened: its two inner pixels are neighbours, and the
\* first of them, which the second one reads, got another value
C19_Witness ==
  /\ shp.pc = "applied"
  /\ shp.amount > 0
  /\ shp.input.width = 4
  /\ shp.input.height = 3
  /\ shp.buf = "sharp"
  /\ shp.heap["image"] = shp.input
  /\ \E ch \in 0..2 : At(shp.heap["sharp"].data, 20 + ch) # At(shp.input.data, 20 + ch)

(***************************************************************************)
(* regionStats by itself, one row of the outer loop at a time: on every    *)
(* rectangle of a small buffer with varied bytes, the empty ones included, *)
(* and on the rectangles at the origin of a white buffer of 15 x 5.        *)
(***************************************************************************)
RegionInputs ==
  LET small == TestImage(3, 2, 37)
      white == Uniform(15, 5, 255)
  IN  {[data |-> small.data, imgW |-> 3, x0 |-> x0, y0 |-> y0, cw |-> cw, ch |-> ch] :
          x0 \in 0..2, y0 \in 0..1, cw \in 0..3, ch \in 0..2}
      \cup
      {[data |-> white.data, imgW |-> 15, x0 |-> 0, y0 |-> 0, cw |-> cw, ch |-> ch] :
          cw \in 0..15, ch \in 0..5}

InitRegion ==
  /\ rgn \in {[pc |-> "loop", data |-> i.data, imgW |-> i.imgW, x0 |-> i.x0, y0 |-> i.y0,
               cw |-> i.cw, ch |-> i.ch, y |-> i.y0,
               acc |-> [sumL |-> FZero, sumR |-> 0, sumG |-> 0, sumB |-> 0, count |-> 0],
               ret |-> Null] :
                 i \in {r \in RegionInputs : r.x0 + r.cw <= r.imgW
                                             /\ (r.y0 + r.ch) * r.imgW * 4 <= Len(r.data)}}
  /\ heap = Null
  /\ settings = Null
  /\ pc = Null
  /\ frame = Null
  /\ ctx = Null
  /\ out = Null
  /\ cell = Null
  /\ result = Null
  /\ ref = Null
  /\ geo = Null
  /\ shp = Null
  /\ pass = Null
  /\ exp = Null
  /\ panel = Null
  /\ page = Null
  /\ ring = Null
  /\ load = Null
  /\ draw = Null
  /\ view = Null

\* lines 189-198: one pass of the outer loop
RegionRowStep ==
  /\ rgn.pc = "loop"
  /\ rgn.y < rgn.y0 + rgn.ch
  /\ rgn' = [rgn EXCEPT !.acc = RegionRow(@, rgn.data, rgn.imgW, rgn.x0, rgn.y, rgn.cw),
                        !.y = @ + 1]
  /\ UNCHANGED <<heap, settings, pc, frame, ctx, out, cell, result, ref, geo, shp,
               pass, exp, panel, page, ring, load, draw, view>>

\* lines 199-201
RegionReturn ==
  /\ rgn.pc = "loop"
  /\ rgn.y >= rgn.y0 + rgn.ch
  /\ rgn' = [rgn EXCEPT !.ret = RegionResult(rgn.acc), !.pc = "done"]
  /\ UNCHANGED <<heap, settings, pc, frame, ctx, out, cell, result, ref, geo, shp,
               pass, exp, panel, page, ring, load, draw, view>>

NextRegion == RegionRowStep \/ RegionReturn

SpecRegion == InitRegion /\ [][NextRegion]_vars

\* C7: regionStats returns for every rectangle: 255 four times for one with
\* cw = 0 or ch = 0; for any other inside the buffer it has counted cw * ch
\* pixels, and each of the four means it returns lies in [0, 255].
C7_RegionStatsTotal ==
  rgn.pc = "done" =>
    /\ (rgn.cw = 0 \/ rgn.ch = 0) =>
         rgn.ret = [luminance |-> Lit255, r |-> Lit255, g |-> Lit255, b |-> Lit255]
    /\ (rgn.cw > 0 /\ rgn.ch > 0) =>
         /\ rgn.acc.count = rgn.cw * rgn.ch
         /\ \A m \in {rgn.ret.luminance, rgn.ret.r, rgn.ret.g, rgn.ret.b} :
              FLe(FZero, m) /\ FLe(m, Lit255)

(***************************************************************************)
(* One pass of the cell loop of convertToPixelArt by itself (lines         *)
(* 334-356), for every cell of a call whose preprocessing is neutral, so   *)
(* that the pixels sampled are the canvas's.  The canvases include one of  *)
(* 150 x 5 white pixels, which gridSize 10 cuts into cells of 15 x 5.      *)
(***************************************************************************)
PassCanvases == {Uniform(150, 5, 255), Ramp, Uniform(4, 2, 0)}

\* 0.2, 1 and 2: the ends of the Line Weight slider and its default
PassLineWeights == {FLit(1, 5), FInt(1), FInt(2)}

PassSettings ==
  {[DEFAULT_SETTINGS EXCEPT !.gridSize = 10, !.invert = i, !.lineWeight = lw] :
     i \in BOOLEAN, lw \in PassLineWeights}

\* the locals of the call on the canvas c with the settings s when the loop
\* reaches the cell (gx, gy)
PassEntry(c, s, gridH, gx, gy) ==
  [pc |-> "bounds", s |-> s, W |-> c.width, H |-> c.height, data |-> c.data,
   cellW |-> CellW(c.width, s.gridSize), gridH |-> gridH, cellH |-> CellH(c.height, gridH),
   gx |-> gx, gy |-> gy, b |-> Null, stats |-> Null, darkness |-> Null,
   lineThick |-> Null, call |-> Null]

PassEntries(c, s) ==
  LET gridH == GridH(c.width, c.height, s.gridSize)
  IN  {PassEntry(c, s, gridH, gx, gy) : gx \in 0..(s.gridSize - 1), gy \in 0..(gridH - 1)}

InitPass ==
  /\ pass \in UNION {PassEntries(c, s) : c \in PassCanvases, s \in PassSettings}
  /\ heap = Null
  /\ settings = Null
  /\ pc = Null
  /\ frame = Null
  /\ ctx = Null
  /\ out = Null
  /\ cell = Null
  /\ result = Null
  /\ ref = Null
  /\ geo = Null
  /\ shp = Null
  /\ rgn = Null
  /\ exp = Null
  /\ panel = Null
  /\ page = Null
  /\ ring = Null
  /\ load = Null
  /\ draw = Null
  /\ view = Null

\* lines 334-337
PassBounds ==
  /\ pass.pc = "bounds"
  /\ pass' = [pass EXCEPT !.b = CellBounds(pass.gx, pass.gy, pass.cellW, pass.cellH),
                          !.pc = "stats"]
  /\ UNCHANGED <<heap, settings, pc, frame, ctx, out, cell, result, ref, geo, shp, rgn,
                 exp, panel, page, ring, load, draw, view>>

\* line 339
PassStats ==
  /\ pass.pc = "stats"
  /\ pass' = [pass EXCEPT
                !.stats = regionStats(pass.data, pass.W, pass.b.x0, pass.b.y0,
                                      pass.b.cw, pass.b.ch),
                !.pc = "darkness"]
  /\ UNCHANGED <<heap, settings, pc, frame, ctx, out, cell, result, ref, geo, shp, rgn,
                 exp, panel, page, ring, load, draw, view>>

\* lines 340-342: the darkness, and the skip test
PassDarkness ==
  /\ pass.pc = "darkness"
  /\ \E d \in {Darkness(pass.stats.luminance, pass.s.invert)} :
       pass' = [pass EXCEPT !.darkness = d,
                            !.pc = IF SkipCell(d) THEN "skipped" ELSE "thick"]
  /\ UNCHANGED <<heap, settings, pc, frame, ctx, out, cell, result, ref, geo, shp, rgn,
                 exp, panel, page, ring, load, draw, view>>

\* lines 344-345
PassThick ==
  /\ pass.pc = "thick"
  /\ pass' = [pass EXCEPT
                !.lineThick = LineThick(pass.b.cw, pass.b.ch, pass.darkness, pass.s.lineWeight),
                !.pc = "render"]
  /\ UNCHANGED <<heap, settings, pc, frame, ctx, out, cell, result, ref, geo, shp, rgn,
                 exp, panel, page, ring, load, draw, view>>

\* line 356: the arguments the renderer is called with
PassRender ==
  /\ pass.pc = "render"
  /\ pass' = [pass EXCEPT
                !.call = [x0 |-> pass.b.x0, y0 |-> pass.b.y0, cw |-> pass.b.cw, ch |-> pass.b.ch,
                          darkness |-> pass.darkness, lineThick |-> pass.lineThick],
                !.pc = "rendered"]
  /\ UNCHANGED <<heap, settings, pc, frame, ctx, out, cell, result, ref, geo, shp, rgn,
                 exp, panel, page, ring, load, draw, view>>

NextPass == PassBounds \/ PassStats \/ PassDarkness \/ PassThick \/ PassRender

SpecPass == InitPass /\ [][NextPass]_vars

\* the darkness of the sampled cell before the inversion
PlainDarkness == FSub(FInt(1), FDivInt(pass.stats.luminance, 255))

\* C11: with invert the darkness of a cell is 1 - d, without it d, where d is
\* 1 - luminance / 255; that darkness is the one the skip test, the stroke
\* thickness and the renderer's call use, and it lies in [0, 1].
C11_InvertedDarkness ==
  pass.darkness # Null =>
    /\ pass.darkness = IF pass.s.invert THEN FSub(FInt(1), PlainDarkness) ELSE PlainDarkness
    /\ pass.pc = "skipped" <=> FLt(pass.darkness, Lit0_03)
    /\ pass.lineThick # Null =>
         pass.lineThick = LineThick(pass.b.cw, pass.b.ch, pass.darkness, pass.s.lineWeight)
    /\ pass.call # Null => pass.call.darkness = pass.darkness
    /\ FLe(FZero, pass.darkness) /\ FLe(pass.darkness, FInt(1))

\* C17: the stroke thickness of a rendered cell is at most 0.85 times the
\* smaller of the cell's two dimensions, for every lineWeight of the
\* documented range.
C17_ThicknessCapped ==
  pass.lineThick # Null =>
    FLe(pass.lineThick, FMul(FInt(Min(pass.b.cw, pass.b.ch)), Lit0_85))

(***************************************************************************)
(* exportAtScale.  The pixels drawImage puts on the resized canvas are     *)
(* the browser's and play no part in the grid counts, so the canvases are  *)
(* their sizes here.  exp.base is what convertToPixelArt returns for the   *)
(* source canvas itself, exp.conv what the call inside exportAtScale       *)
(* returns for the resized one.                                            *)
(***************************************************************************)
MaxExportSide == 4

\* 0.5, 1, 1.5, 2 and 3
Scales == {Half, FInt(1), FLit(3, 2), FInt(2), FInt(3)}

ExportGridSizes == {10, 80}

\* line 392
ExportWidth(c, scale) == FRound(FMul(FInt(c.width), scale))

\* up.height computed from the source's width
ExportHeightOfWidth(c, scale) == ExportWidth(c, scale)

\* line 393
ExportHeight(c, scale) == FRound(FMul(FInt(c.height), scale))

\* what a call of convertToPixelArt on a canvas of W x H reports (lines 301-304
\* and 363-365); getImageData throws for a canvas without pixels (line 293)
ConvertCounts(W, H, gridSize) ==
  IF W = 0 \/ H = 0 THEN [threw |-> TRUE]
  ELSE LET gridH == GridH(W, H, gridSize)
       IN  [threw |-> FALSE, gridCols |-> gridSize, gridRows |-> gridH,
            totalCells |-> gridSize * gridH]

InitExport ==
  /\ exp \in {[pc |-> "start", source |-> [width |-> W, height |-> H], gridSize |-> g,
               scale |-> k, up |-> Null, conv |-> Null, base |-> Null] :
                 W \in 1..MaxExportSide, H \in 1..MaxExportSide,
                 g \in ExportGridSizes, k \in Scales}
  /\ heap = Null
  /\ settings = Null
  /\ pc = Null
  /\ frame = Null
  /\ ctx = Null
  /\ out = Null
  /\ cell = Null
  /\ result = Null
  /\ ref = Null
  /\ geo = Null
  /\ shp = Null
  /\ rgn = Null
  /\ pass = Null
  /\ panel = Null
  /\ page = Null
  /\ ring = Null
  /\ load = Null
  /\ draw = Null
  /\ view = Null

\* lines 391-397: the resized canvas
ExportResize ==
  /\ exp.pc = "start"
  /\ exp' = [exp EXCEPT !.up = [width  |-> ExportWidth(exp.source, exp.scale),
                                height |-> ExportHeight(exp.source, exp.scale)],
                        !.pc = "resized"]
  /\ UNCHANGED <<heap, settings, pc, frame, ctx, out, cell, result, ref, geo, shp, rgn,
                 pass, panel, page, ring, load, draw, view>>

\* line 398: the conversion of the resized canvas
ExportConvert ==
  /\ exp.pc = "resized"
  /\ exp' = [exp EXCEPT !.conv = ConvertCounts(exp.up.width, exp.up.height, exp.gridSize),
                        !.pc = "converted"]
  /\ UNCHANGED <<heap, settings, pc, frame, ctx, out, cell, result, ref, geo, shp, rgn,
                 pass, panel, page, ring, load, draw, view>>

\* convertToPixelArt on the source canvas with the same settings
ExportBase ==
  /\ exp.base = Null
  /\ exp' = [exp EXCEPT !.base = ConvertCounts(exp.source.width, exp.source.height,
                                               exp.gridSize)]
  /\ UNCHANGED <<heap, settings, pc, frame, ctx, out, cell, result, ref, geo, shp, rgn,
                 pass, panel, page, ring, load, draw, view>>

NextExport == ExportResize \/ ExportConvert \/ ExportBase

SpecExport == InitExport /\ [][NextExport]_vars

\* both conversions have returned, and the resized canvas has pixels
ExportCompared ==
  /\ exp.pc = "converted"
  /\ exp.base # Null
  /\ exp.up.width > 0
  /\ exp.up.height > 0

\* C13 as stated: for every scale above 0 that leaves the resized canvas with
\* pixels, the conversion inside exportAtScale reports the gridCols, gridRows
\* and totalCells of the conversion of the source.
C13_CountsAnyScale ==
  ExportCompared => exp.conv = exp.base

\* C13: for every whole scale of 1 or more (2 in particular) the conversion
\* inside exportAtScale reports the gridCols, gridRows and totalCells of the
\* conversion of the source.
C13_CountsWholeScale ==
  (ExportCompared /\ FInt(FFloor(exp.scale)) = exp.scale) => exp.conv = exp.base

\* a canvas of 3 x 4 was exported at scale 2 and both conversions count 13 rows
C13_Witness ==
  /\ ExportCompared
  /\ exp.scale = FInt(2)
  /\ exp.source = [width |-> 3, height |-> 4]
  /\ exp.up = [width |-> 6, height |-> 8]
  /\ exp.gridSize = 10
  /\ exp.conv.gridRows = 13
  /\ exp.base.totalCells = 130

(***************************************************************************)
(* ControlsPanel and the settings it edits.  panel.settings is the page's  *)
(* settings state, which the panel gets as a prop and replaces through     *)
(* onSettingsChange (the page's setSettings); the panel is on the page     *)
(* while an image is loaded.  panel.key is the field the last update       *)
(* targeted ("" after other events).  A range input hands its value over   *)
(* as a decimal string that lies on a step between min and max.            *)
(***************************************************************************)
\* v.toFixed(2) of a number v >= 0, as the count of hundredths the string
\* denotes: the integer n with n / 100 nearest to v, the larger of two
ToFixed2(v) ==
  IF v.m = <<>> THEN 0
  ELSE IF v.e >= 0 THEN 100 * BigToNat(BigShl(v.m, v.e))
  ELSE BigToNat(BigShr(BigAdd(BigMulSmall(v.m, 200), BigShl(<<1>>, -v.e)), 1 - v.e))

\* parseFloat of a decimal string of n hundredths
ParseHundredths(n) == FLit(n, 100)

PATTERNS == <<"line-h", "line-v", "cross", "diagonal", "dots", "concentric", "wave">>

\* min and max of the sliders with step 1
SliderRange ==
  [gridSize   |-> [min |-> 10,   max |-> 200],
   contrast   |-> [min |-> -100, max |-> 100],
   brightness |-> [min |-> -100, max |-> 100],
   sharpen    |-> [min |-> 0,    max |-> 100],
   bgOpacity  |-> [min |-> 0,    max |-> 100]]

\* the Line Weight slider in hundredths: min 0.2, max 2.0, step 0.05
LineWeightRange == [min |-> 20, max |-> 200, step |-> 5]

\* the positions the sliders are moved to: the two ends
SliderStops(key) == {SliderRange[key].min, SliderRange[key].max}

LineWeightStops == {LineWeightRange.min, LineWeightRange.max}

\* update spreading DEFAULT_SETTINGS instead of the prop
updateFromDefault(s, key, val) == [DEFAULT_SETTINGS EXCEPT ![key] = val]

\* update(key, val) with the prop settings
update(s, key, val) == [s EXCEPT ![key] = val]

\* the updates the pattern buttons and the sliders make
ControlEdits ==
  {[key |-> "pattern", val |-> PATTERNS[i]] : i \in 1..Len(PATTERNS)}
  \cup {[key |-> k, val |-> v] : k \in {"gridSize"}, v \in SliderStops("gridSize")}
  \cup {[key |-> k, val |-> v] : k \in {"contrast"}, v \in SliderStops("contrast")}
  \cup {[key |-> k, val |-> v] : k \in {"brightness"}, v \in SliderStops("brightness")}
  \cup {[key |-> k, val |-> v] : k \in {"sharpen"}, v \in SliderStops("sharpen")}
  \cup {[key |-> k, val |-> v] : k \in {"bgOpacity"}, v \in SliderStops("bgOpacity")}
  \cup {[key |-> "lineWeight", val |-> ParseHundredths(ToFixed2(ParseHundredths(h)))] :
          h \in LineWeightStops}

\* the updates the controls of the panel make of the settings s
PanelEdits(s) ==
  ControlEdits
  \cup {[key |-> "invert", val |-> ~s.invert], [key |-> "colorMode", val |-> ~s.colorMode]}

InitPanel ==
  /\ panel = [settings |-> DEFAULT_SETTINGS, mounted |-> FALSE, key |-> ""]
  /\ heap = Null
  /\ settings = Null
  /\ pc = Null
  /\ frame = Null
  /\ ctx = Null
  /\ out = Null
  /\ cell = Null
  /\ result = Null
  /\ ref = Null
  /\ geo = Null
  /\ shp = Null
  /\ rgn = Null
  /\ pass = Null
  /\ exp = Null
  /\ page = Null
  /\ ring = Null
  /\ load = Null
  /\ draw = Null
  /\ view = Null

\* an image is selected: the page shows the panel
PanelMount ==
  /\ ~panel.mounted
  /\ panel' = [panel EXCEPT !.mounted = TRUE, !.key = ""]
  /\ UNCHANGED <<heap, settings, pc, frame, ctx, out, cell, result, ref, geo, shp, rgn,
                 pass, exp, page, ring, load, draw, view>>

\* a control of the panel is used
PanelUpdate ==
  /\ panel.mounted
  /\ \E e \in PanelEdits(panel.settings) :
       panel' = [panel EXCEPT !.settings = update(panel.settings, e.key, e.val),
                              !.key = e.key]
  /\ UNCHANGED <<heap, settings, pc, frame, ctx, out, cell, result, ref, geo, shp, rgn,
                 pass, exp, page, ring, load, draw, view>>

\* onReset: handleReset puts back DEFAULT_SETTINGS and drops the image
PanelReset ==
  /\ panel.mounted
  /\ panel' = [settings |-> DEFAULT_SETTINGS, mounted |-> FALSE, key |-> ""]
  /\ UNCHANGED <<heap, settings, pc, frame, ctx, out, cell, result, ref, geo, shp, rgn,
                 pass, exp, page, ring, load, draw, view>>

NextPanel == PanelMount \/ PanelUpdate \/ PanelReset

SpecPanel == InitPanel /\ [][NextPanel]_vars

SettingsInRange(s) ==
  /\ s.gridSize \in 10..200
  /\ FLe(FLit(1, 5), s.lineWeight) /\ FLe(s.lineWeight, FInt(2))
  /\ s.contrast \in -100..100
  /\ s.brightness \in -100..100
  /\ s.sharpen \in 0..100
  /\ s.bgOpacity \in 0..100
  /\ s.pattern \in PatternStyle
  /\ s.invert \in BOOLEAN
  /\ s.colorMode \in BOOLEAN

\* C15: after any sequence of panel interactions and resets from
\* DEFAULT_SETTINGS the settings have gridSize in [10, 200], lineWeight in
\* [0.2, 2.0], contrast and brightness in [-100, 100], sharpen and bgOpacity
\* in [0, 100] and one of the 7 patterns; and an update changes no field
\* but the one it targets.
C15_SettingsStayInRange ==
  /\ [](SettingsInRange(panel.settings))
  /\ [][panel'.key # "" =>
          \A f \in DOMAIN panel.settings :
             f # panel'.key => panel'.settings[f] = panel.settings[f]]_vars

\* the settings after updates of the grid size, the line weight and the pattern
C15_Witness ==
  /\ panel.mounted
  /\ panel.key = "lineWeight"
  /\ panel.settings.lineWeight = FLit(1, 5)
  /\ panel.settings.gridSize = 200
  /\ panel.settings.pattern = "wave"
  /\ panel.settings.sharpen = 0

(***************************************************************************)
(* The page (Home).  page holds its React state (sourceImage,              *)
(* resultCanvas, conversionResult, settings, isProcessing, fileName), its  *)
(* refs (sourceCanvasRef, debounceRef), whether the auto-convert effect    *)
(* left a cleanup, and what the browser holds for it: the pending          *)
(* timeouts, the pending idle callbacks in the order they were requested,  *)
(* and the images that are loading.  A handler runs to its end, and React  *)
(* runs the effect's cleanup and the effect after the render a handler     *)
(* caused, before the next event: a handler and the effect run it causes   *)
(* are one step.  State setters of an unmounted component do nothing.      *)
(* A canvas the engine drew is named by what it was drawn from; the grid   *)
(* counts of a result are the engine's.  page.seq numbers the timeouts     *)
(* (debounceRef is 0 for null), page.cancelled holds the timeouts cleared  *)
(* while pending, page.event says how the last idle callback ended and     *)
(* page.ran which timeout had requested it.  page.selected says whether    *)
(* handleImageSelect was called since the last handleReset, and a load is  *)
(* stale when handleReset ran while it was in flight.                      *)
(***************************************************************************)
MaxTimers == 3
MaxPending == 2
MaxLoads == 2

\* 20 * 1024 * 1024
MaxFileSize == 20971520

Files ==
  {[name |-> "a.png",      size |-> 1000,     loads |-> TRUE,  width |-> 13,   height |-> 5],
   [name |-> "thin.png",   size |-> 1000,     loads |-> TRUE,  width |-> 1,    height |-> 8],
   [name |-> "big.jpg",    size |-> 1000,     loads |-> TRUE,  width |-> 2400, height |-> 1300],
   [name |-> "huge.png",   size |-> 20971521, loads |-> TRUE,  width |-> 13,   height |-> 5],
   [name |-> "broken.png", size |-> 1000,     loads |-> FALSE, width |-> 0,    height |-> 0]}

\* drawImageToCanvas(img, maxWidth, maxHeight): the size of the canvas
drawImageToCanvas(img, maxWidth, maxHeight) ==
  LET r  == FMin(FDivInt(FInt(maxWidth), img.width), FDivInt(FInt(maxHeight), img.height))
      w  == IF img.width > maxWidth \/ img.height > maxHeight
            THEN FFloor(FMul(FInt(img.width), r)) ELSE img.width
      h  == IF img.width > maxWidth \/ img.height > maxHeight
            THEN FFloor(FMul(FInt(img.height), r)) ELSE img.height
  IN  [width |-> (w \div 2) * 2, height |-> (h \div 2) * 2, image |-> img.name]

\* the source canvas handleImageSelect draws of each file that loads
SourceCanvases ==
  [name \in {f.name : f \in {x \in Files : x.loads}} |->
     drawImageToCanvas(CHOOSE f \in Files : f.name = name, 1200, 1200)]

\* the grid counts of the conversions of these canvases, or that they throw,
\* for the grid sizes the page is driven with
PageCounts ==
  [name \in DOMAIN SourceCanvases |->
     [g \in {DEFAULT_SETTINGS.gridSize, 10} |->
        ConvertCounts(SourceCanvases[name].width, SourceCanvases[name].height, g)]]

\* convertToPixelArt(sourceCanvasRef.current!, settings) as the page sees it:
\* a TypeError for no canvas, getImageData's error for a canvas without
\* pixels, else the result
PageConvert(canvas, s, ms) ==
  IF canvas = Null THEN [threw |-> TRUE]
  ELSE LET counts == PageCounts[canvas.image][s.gridSize]
       IN  IF counts.threw THEN [threw |-> TRUE]
           ELSE [threw |-> FALSE,
                 result |-> [canvas |-> [width |-> canvas.width, height |-> canvas.height,
                                         source |-> canvas, settings |-> s],
                             processingTimeMs |-> ms,
                             gridCols |-> counts.gridCols, gridRows |-> counts.gridRows,
                             totalCells |-> counts.totalCells]]

\* clearTimeout leaving the timeout pending
clearTimeoutNoop(pg, id) == pg

\* clearTimeout(id): a pending timeout with that id is dropped
clearTimeout(pg, id) ==
  [pg EXCEPT !.timers = {tm \in @ : tm.id # id},
             !.cancelled = @ \cup {tm.id : tm \in {x \in pg.timers : x.id = id}}]

\* line 55, the cleanup of the effect
EffectCleanup(pg) ==
  IF pg.hasCleanup /\ pg.debounceRef # 0 THEN clearTimeout(pg, pg.debounceRef) ELSE pg

\* lines 32-36 and 53: the effect, up to the timeout it sets
EffectBody(pg) ==
  IF pg.sourceCanvasRef = Null THEN [pg EXCEPT !.hasCleanup = FALSE]
  ELSE LET cleared == IF pg.debounceRef # 0 THEN clearTimeout(pg, pg.debounceRef) ELSE pg
       IN  [cleared EXCEPT !.timers = @ \cup {[id |-> pg.seq + 1, settings |-> pg.settings]},
                           !.debounceRef = pg.seq + 1,
                           !.seq = @ + 1,
                           !.hasCleanup = TRUE]

\* the effect run after a render that changed settings or sourceImage
EffectRerun(pg) == EffectBody(EffectCleanup(pg))

\* the finally clause left out
FinallyOmitted(pg) == pg

\* lines 49-51
Finally(pg) == IF pg.mounted THEN [pg EXCEPT !.isProcessing = FALSE] ELSE pg

\* the edits of the panel the page is driven with here
PageEdits(s) ==
  {[key |-> "gridSize", val |-> 10], [key |-> "invert", val |-> ~s.invert]}

InitPage ==
  /\ page = [mounted |-> TRUE, sourceImage |-> Null, resultCanvas |-> Null,
             conversionResult |-> Null, settings |-> DEFAULT_SETTINGS,
             isProcessing |-> FALSE, fileName |-> "",
             sourceCanvasRef |-> Null, debounceRef |-> 0, hasCleanup |-> FALSE,
             timers |-> {}, idle |-> <<>>, loading |-> {},
             seq |-> 0, cancelled |-> {}, event |-> "", ran |-> 0,
             selected |-> FALSE]
  /\ heap = Null
  /\ settings = Null
  /\ pc = Null
  /\ frame = Null
  /\ ctx = Null
  /\ out = Null
  /\ cell = Null
  /\ result = Null
  /\ ref = Null
  /\ geo = Null
  /\ shp = Null
  /\ rgn = Null
  /\ pass = Null
  /\ exp = Null
  /\ panel = Null
  /\ ring = Null
  /\ load = Null
  /\ draw = Null
  /\ view = Null

PageFrame ==
  UNCHANGED <<heap, settings, pc, frame, ctx, out, cell, result, ref, geo, shp, rgn,
              pass, exp, panel, ring, load, draw, view>>

\* line 45 alone: setResultCanvas without setConversionResult
InstallCanvasOnly(pg, r) ==
  IF r.threw \/ ~pg.mounted THEN pg
  ELSE [pg EXCEPT !.resultCanvas = r.result.canvas]

\* lines 44-46: the two setters after convertToPixelArt has returned
InstallResult(pg, r) ==
  IF r.threw \/ ~pg.mounted THEN pg
  ELSE [pg EXCEPT !.resultCanvas = r.result.canvas, !.conversionResult = r.result]

\* handleReset without its last line
handleResetKeepsCanvas(pg) ==
  [pg EXCEPT !.sourceImage = Null, !.resultCanvas = Null, !.conversionResult = Null,
             !.settings = DEFAULT_SETTINGS, !.fileName = "", !.isProcessing = FALSE]

\* handleReset (lines 80-88)
handleReset(pg) ==
  [pg EXCEPT !.sourceImage = Null, !.resultCanvas = Null, !.conversionResult = Null,
             !.settings = DEFAULT_SETTINGS, !.fileName = "", !.isProcessing = FALSE,
             !.sourceCanvasRef = Null]

\* the idle callback that runs next, of n pending: the one requested last
PickIdleLast(n) == n

\* the idle callback that runs next, of n pending: the one requested first
PickIdle(n) == 1

\* the timeouts the steps to come may still set
TimersLeft(pg) == MaxTimers - pg.seq - Cardinality(pg.loading)

\* handleImageSelect up to the await (lines 59-66).  ImageUpload, shown while
\* there is no image, takes no file while isProcessing; the Replace inputs,
\* shown with the image, always do.
PageSelect(f) ==
  /\ page.mounted
  /\ page.sourceImage # Null \/ ~page.isProcessing
  /\ Cardinality(page.loading) < MaxLoads
  /\ TimersLeft(page) > 0
  /\ \A l \in page.loading : l.file # f
  /\ page' = IF f.size > MaxFileSize THEN page
             ELSE [page EXCEPT !.fileName = f.name, !.isProcessing = TRUE,
                               !.loading = @ \cup {[file |-> f, stale |-> FALSE]},
                               !.selected = TRUE]
  /\ PageFrame

\* handleImageSelect after loadImage has resolved (lines 67-77)
PageLoaded ==
  /\ \E l \in page.loading :
       /\ l.file.loads
       /\ LET canvas == SourceCanvases[l.file.name]
              held   == [page EXCEPT !.sourceCanvasRef = canvas, !.loading = @ \ {l}]
              set    == [held EXCEPT !.sourceImage = l.file, !.resultCanvas = Null,
                                     !.conversionResult = Null]
          IN  page' = IF page.mounted THEN EffectRerun(Finally(set)) ELSE held
  /\ PageFrame

\* handleImageSelect after loadImage has rejected (lines 72-77)
PageLoadFailed ==
  /\ \E l \in page.loading :
       /\ ~l.file.loads
       /\ page' = Finally([page EXCEPT !.loading = @ \ {l}])
  /\ PageFrame

\* a control of the panel: setSettings with a new object, and the effect
PageUpdate ==
  /\ page.mounted
  /\ page.sourceImage # Null
  /\ TimersLeft(page) > 0
  /\ \E e \in PageEdits(page.settings) :
       page' = EffectRerun([page EXCEPT !.settings = update(page.settings, e.key, e.val)])
  /\ PageFrame

\* handleReset, and the effect if sourceImage or settings changed
PageReset ==
  /\ page.mounted
  /\ LET set == [handleReset(page) EXCEPT
                   !.selected = FALSE,
                   !.loading = {[l EXCEPT !.stale = TRUE] : l \in @}]
     IN  page' = IF page.sourceImage # Null \/ page.settings # DEFAULT_SETTINGS
                 THEN EffectRerun(set) ELSE set
  /\ PageFrame

\* the timeout fires (lines 35-39 and 52): the work is handed to
\* requestIdleCallback, or to requestAnimationFrame and setTimeout
PageTimerFire ==
  /\ Len(page.idle) < MaxPending
  /\ \E tm \in page.timers :
       page' = [page EXCEPT !.timers = @ \ {tm},
                            !.isProcessing = IF page.mounted THEN TRUE ELSE @,
                            !.idle = Append(@, [settings |-> tm.settings, timer |-> tm.id])]
  /\ PageFrame

\* the idle callback (lines 42-51)
PageIdleRun ==
  /\ page.idle # <<>>
  /\ \E ms \in Elapsed, k \in {PickIdle(Len(page.idle))} :
       \E r \in {PageConvert(page.sourceCanvasRef, page.idle[k].settings, ms)} :
          page' = Finally(InstallResult(
                    [page EXCEPT !.idle = SubSeq(@, 1, k - 1) \o SubSeq(@, k + 1, Len(@)),
                                 !.ran = page.idle[k].timer,
                                 !.event = IF r.threw THEN "threw" ELSE "converted"], r))
  /\ PageFrame

\* the page is left: the effect's cleanup runs
PageUnmount ==
  /\ page.mounted
  /\ page' = [EffectCleanup(page) EXCEPT !.mounted = FALSE]
  /\ PageFrame

NextPage ==
  \/ \E f \in Files : PageSelect(f)
  \/ PageLoaded
  \/ PageLoadFailed
  \/ PageUpdate
  \/ PageReset
  \/ PageTimerFire
  \/ PageIdleRun
  \/ PageUnmount

SpecPage == InitPage /\ [][NextPage]_vars

\* an idle callback has just run
IdleRan == Len(page'.idle) < Len(page.idle)

\* C16: resultCanvas and conversionResult get a value only from an idle
\* callback whose conversion returned, and then the whole result of that
\* conversion; a callback whose conversion threw leaves both as they were
\* and isProcessing false.
C16_ResultsInstalledWhole ==
  /\ [](/\ page.resultCanvas = Null <=> page.conversionResult = Null
        /\ page.resultCanvas # Null =>
             /\ page.conversionResult.canvas = page.resultCanvas
             /\ page.resultCanvas.source # Null
             /\ page.resultCanvas.width > 0 /\ page.resultCanvas.height > 0
             /\ page.conversionResult.totalCells
                  = page.conversionResult.gridCols * page.conversionResult.gridRows)
  /\ [][(page'.resultCanvas # page.resultCanvas \/ page'.conversionResult # page.conversionResult)
          => \/ page'.resultCanvas = Null /\ page'.conversionResult = Null /\ ~IdleRan
             \/ IdleRan /\ page'.event = "converted" /\ ~page'.isProcessing]_vars
  /\ [][(IdleRan /\ page'.event = "threw")
          => /\ page'.resultCanvas = page.resultCanvas
             /\ page'.conversionResult = page.conversionResult
             /\ page.mounted => ~page'.isProcessing]_vars

\* a conversion threw after a reset had taken the canvas away, while the page
\* showed that it was processing
C16_Witness ==
  /\ page.mounted
  /\ page.event = "threw"
  /\ page.sourceCanvasRef = Null
  /\ page.ran # 0
  /\ page.resultCanvas = Null
  /\ ~page.isProcessing

\* C18: a change of the settings or of the source image drops the timeout
\* that was pending, so that a timeout cleared while pending never gets a
\* conversion run; at most one timeout is pending at any moment, it holds
\* the current settings, and unmounting leaves none.
C18_DebounceSupersedes ==
  /\ [](/\ Cardinality(page.timers) <= 1
        /\ \A tm \in page.timers : tm.settings = page.settings /\ tm.id = page.debounceRef
        /\ ~page.mounted => page.timers = {}
        /\ \A i \in 1..Len(page.idle) : page.idle[i].timer \notin page.cancelled
        /\ page.ran \notin page.cancelled)
  /\ [][(page'.settings # page.settings \/ page'.sourceImage # page.sourceImage)
          => /\ page'.timers \cap page.timers = {}
             /\ {tm.id : tm \in page.timers} \subseteq page'.cancelled]_vars

\* the settings were changed twice within the delay: the first change's
\* timeout was cleared, the second's is pending, and a conversion has run before
C18_Witness ==
  /\ page.mounted
  /\ page.event = "converted"
  /\ page.cancelled # {}
  /\ Cardinality(page.timers) = 1
  /\ page.settings # DEFAULT_SETTINGS
  /\ page.ran \notin page.cancelled
  /\ page.ran # 0

\* C22: resultCanvas is null exactly when conversionResult is null, and a
\* conversionResult that is set has resultCanvas as its canvas, after every
\* sequence of selections, loads, failures, resets, edits and conversions.
C22_ResultPairConsistent ==
  /\ page.resultCanvas = Null <=> page.conversionResult = Null
  /\ page.resultCanvas # Null => page.conversionResult.canvas = page.resultCanvas

\* the second image, loaded over the first, was converted with edited settings
C22_Witness ==
  /\ page.mounted
  /\ page.resultCanvas # Null
  /\ page.conversionResult.canvas = page.resultCanvas
  /\ page.resultCanvas.source.image = "big.jpg"
  /\ page.resultCanvas.settings.gridSize = 10
  /\ page.seq = MaxTimers

\* handleImageSelect, a control of the panel, handleReset or leaving the page
UserStep ==
  \/ \E f \in Files : PageSelect(f)
  \/ PageUpdate
  \/ PageReset
  \/ PageUnmount

\* the conversion of the current source canvas with the current settings returns
ConvertsNow == ~PageConvert(page.sourceCanvasRef, page.settings, 0).threw

\* the converted image of the current source canvas and settings is shown
Settled ==
  /\ ~page.isProcessing
  /\ page.resultCanvas # Null
  /\ page.resultCanvas.source = page.sourceCanvasRef
  /\ page.resultCanvas.settings = page.settings

\* the browser fires every timeout, runs every idle callback in the order
\* of the requests and ends every load
SpecPageLive ==
  /\ InitPage
  /\ [][NextPage]_vars
  /\ WF_vars(PageTimerFire)
  /\ WF_vars(PageIdleRun)
  /\ WF_vars(PageLoaded)
  /\ WF_vars(PageLoadFailed)

\* C23: once the user has stopped, with an image loaded whose conversion
\* does not throw, the page comes to rest with isProcessing false and with
\* the conversion of the current source canvas under the latest settings as
\* resultCanvas.
C23_LatestSettingsWin ==
  <>[][~UserStep]_vars =>
    <>[]((page.mounted /\ page.sourceImage # Null /\ ConvertsNow) => Settled)

\* two edits, each converted, the conversion of the first before that of the
\* second: the result shown is that of the second
C23_Witness ==
  /\ page.mounted
  /\ page.sourceImage # Null
  /\ page.seq = MaxTimers
  /\ page.cancelled = {}
  /\ page.ran = page.seq
  /\ page.settings # DEFAULT_SETTINGS
  /\ page.timers = {} /\ page.idle = <<>> /\ page.loading = {}
  /\ Settled

\* C24: while sourceImage is null resultCanvas is null, and an idle callback
\* that runs while sourceImage is null installs nothing.
C24_NoImageNoResult ==
  /\ [](page.sourceImage = Null => page.resultCanvas = Null /\ page.conversionResult = Null)
  /\ [][(IdleRan /\ page.sourceImage = Null) =>
          /\ page'.resultCanvas = Null
          /\ page.mounted => page'.event = "threw"]_vars

\* a callback requested before handleReset ran after it and threw
C24_Witness ==
  /\ page.mounted
  /\ page.sourceImage = Null
  /\ ~page.selected
  /\ page.event = "threw"
  /\ page.ran = page.seq
  /\ page.seq > 0
  /\ page.resultCanvas = Null

\* C25: from handleReset to the next call of handleImageSelect sourceImage
\* and sourceCanvasRef are null.
C25_ResetHolds ==
  (page.mounted /\ ~page.selected) =>
    (page.sourceImage = Null /\ page.sourceCanvasRef = Null)

\* C26: with no load in flight fileName is the name of the file sourceImage
\* was loaded from, and empty without an image.
C26_FileNameOfImage ==
  (page.mounted /\ page.loading = {}) =>
    page.fileName = (IF page.sourceImage = Null THEN "" ELSE page.sourceImage.name)

\* C27: isProcessing is true while an idle callback is pending or a load is
\* in flight.
C27_ProcessingWhileWorkPending ==
  (page.mounted /\ (page.idle # <<>> \/ page.loading # {})) => page.isProcessing

(***************************************************************************)
(* renderConcentric by itself, one pass of its loop at a time, on cells of *)
(* several sizes and darknesses from the skip threshold up to 1.           *)
(* ring.strokes holds the circles stroked so far, in order.                *)
(***************************************************************************)
RingSides == {0, 1, 2, 4, 12, 30}

\* hundredths: 0.03 is the least darkness a rendered cell has
RingDarknesses == {FLit(n, 100) : n \in {3, 20, 33, 34, 50, 66, 67, 90, 100}}

\* line 245
RingMaxR(cw, ch) == FMul(FInt(Min(cw, ch)), FLit(45, 100))

\* the ring count with Math.round in place of Math.floor
RingCountRounded(darkness) == Max(1, FRound(FMul(darkness, FInt(3))))

\* line 246
RingCount(darkness) == Max(1, FFloor(FMul(darkness, FInt(3))))

\* line 249
RingRadius(i, rings, maxR, darkness) == FMul(FMul(FDivInt(FInt(i), rings), maxR), darkness)

InitRings ==
  /\ ring \in {[pc |-> "enter", cw |-> cw, ch |-> ch, darkness |-> d,
                lt |-> LineThick(cw, ch, d, FInt(1)), maxR |-> Null, rings |-> 0,
                lineWidth |-> FInt(1), i |-> 0, strokes |-> <<>>] :
                cw \in RingSides, ch \in RingSides, d \in RingDarknesses}
  /\ heap = Null
  /\ settings = Null
  /\ pc = Null
  /\ frame = Null
  /\ ctx = Null
  /\ out = Null
  /\ cell = Null
  /\ result = Null
  /\ ref = Null
  /\ geo = Null
  /\ shp = Null
  /\ rgn = Null
  /\ pass = Null
  /\ exp = Null
  /\ panel = Null
  /\ page = Null
  /\ load = Null
  /\ draw = Null
  /\ view = Null

\* lines 245-247, and the loop's i = 1
RingsEnter ==
  /\ ring.pc = "enter"
  /\ ring' = [ring EXCEPT !.maxR = RingMaxR(ring.cw, ring.ch),
                          !.rings = RingCount(ring.darkness),
                          !.lineWidth = RendererLineWidth("concentric", ring.lt, @),
                          !.i = 1,
                          !.pc = "loop"]
  /\ UNCHANGED <<heap, settings, pc, frame, ctx, out, cell, result, ref, geo, shp, rgn,
                 pass, exp, panel, page, load, draw, view>>

\* lines 248-252: one pass of the loop
RingStep ==
  /\ ring.pc = "loop"
  /\ ring.i <= ring.rings
  /\ \E r \in {RingRadius(ring.i, ring.rings, ring.maxR, ring.darkness)} :
       ring' = [ring EXCEPT
                  !.strokes = IF FLt(r, Half) THEN @ ELSE Append(@, [i |-> ring.i, r |-> r]),
                  !.i = @ + 1]
  /\ UNCHANGED <<heap, settings, pc, frame, ctx, out, cell, result, ref, geo, shp, rgn,
                 pass, exp, panel, page, load, draw, view>>

\* the loop is left
RingsReturn ==
  /\ ring.pc = "loop"
  /\ ring.i > ring.rings
  /\ ring' = [ring EXCEPT !.pc = "done"]
  /\ UNCHANGED <<heap, settings, pc, frame, ctx, out, cell, result, ref, geo, shp, rgn,
                 pass, exp, panel, page, load, draw, view>>

NextRings == RingsEnter \/ RingStep \/ RingsReturn

SpecRings == InitRings /\ [][NextRings]_vars

\* the radius of ring i of n, from the cell and its darkness
RingRadiusOf(i, n) ==
  FMul(FMul(FDivInt(FInt(i), n), FMul(FInt(Min(ring.cw, ring.ch)), FLit(45, 100))),
       ring.darkness)

\* C21: for a darkness from 0.03 to 1 renderConcentric takes max(1,
\* floor(3 * darkness)) rings, 1, 2 or 3 of them, and strokes exactly the
\* rings i whose radius (i / rings) * 0.45 * min(cw, ch) * darkness is 0.5
\* or more: at most 3 circles, of strictly increasing radius, none above
\* 0.45 * min(cw, ch).
C21_ConcentricRings ==
  ring.pc = "done" =>
    LET n == Max(1, FFloor(FMul(ring.darkness, FInt(3))))
    IN  /\ ring.rings = n
        /\ n \in 1..3
        /\ Len(ring.strokes) <= 3
        /\ \A i \in 1..n :
             (\E k \in 1..Len(ring.strokes) : ring.strokes[k].i = i)
               <=> ~FLt(RingRadiusOf(i, n), Half)
        /\ \A k \in 1..Len(ring.strokes) :
             /\ ring.strokes[k].i \in 1..n
             /\ ring.strokes[k].r = RingRadiusOf(ring.strokes[k].i, n)
             /\ FLe(ring.strokes[k].r, FMul(FInt(Min(ring.cw, ring.ch)), FLit(45, 100)))
             /\ k > 1 => /\ ring.strokes[k - 1].i < ring.strokes[k].i
                         /\ FLt(ring.strokes[k - 1].r, ring.strokes[k].r)

\* a black cell 2 pixels high: of its 3 rings the first, of radius 0.3, was
\* left out and the two others were stroked
C21_Witness ==
  /\ ring.pc = "done"
  /\ ring.darkness = FInt(1)
  /\ Min(ring.cw, ring.ch) = 2
  /\ ring.rings = 3
  /\ Len(ring.strokes) = 2
  /\ ring.strokes[1].i = 2

(***************************************************************************)
(* loadImage.  Up to MaxCalls calls are in flight at once, as the page     *)
(* makes them.  The executor of the promise (lines 80-91) runs within the  *)
(* call; the browser then dispatches load or error to the image, once.     *)
(* load.live holds the object URLs that exist, load.revoked counts the     *)
(* calls of revokeObjectURL by URL, and a call's settles counts its calls  *)
(* of resolve and reject.                                                  *)
(***************************************************************************)
MaxCalls == 3

LoadCalls == 1..MaxCalls

LoadFiles == {f \in Files : f.name \in {"a.png", "broken.png"}}

\* URL.createObjectURL(file): a URL no call had before
createObjectURL(ld) ==
  [ld EXCEPT !.nextUrl = @ + 1, !.live = @ \cup {ld.nextUrl + 1},
             !.revoked = [u \in (DOMAIN @) \cup {ld.nextUrl + 1} |->
                            IF u \in DOMAIN @ THEN @[u] ELSE 0]]

\* URL.revokeObjectURL(url)
revokeObjectURL(ld, url) ==
  [ld EXCEPT !.live = @ \ {url}, !.revoked[url] = @ + 1]

\* resolve(value) or reject(reason) of the promise of call i: the first of
\* them settles it
Settle(ld, i, state, value) ==
  [ld EXCEPT !.calls[i].settles = @ + 1,
             !.calls[i].promise = IF @ = "pending" THEN state ELSE @,
             !.calls[i].value   = IF ld.calls[i].promise = "pending" THEN value ELSE @]

\* lines 82-85
onload(ld, i) ==
  Settle(revokeObjectURL(ld, ld.calls[i].url), i, "fulfilled", ld.calls[i].file.name)

\* img.onerror without its first line
onerrorKeepsUrl(ld, i) ==
  Settle(ld, i, "rejected", "Failed to load image")

\* lines 86-89
onerror(ld, i) ==
  Settle(revokeObjectURL(ld, ld.calls[i].url), i, "rejected", "Failed to load image")

InitLoad ==
  /\ load = [calls |-> [i \in LoadCalls |->
                          [pc |-> "idle", file |-> Null, url |-> 0, promise |-> "none",
                           value |-> "", settles |-> 0]],
             live |-> {}, revoked |-> <<>>, nextUrl |-> 0]
  /\ heap = Null
  /\ settings = Null
  /\ pc = Null
  /\ frame = Null
  /\ ctx = Null
  /\ out = Null
  /\ cell = Null
  /\ result = Null
  /\ ref = Null
  /\ geo = Null
  /\ shp = Null
  /\ rgn = Null
  /\ pass = Null
  /\ exp = Null
  /\ panel = Null
  /\ page = Null
  /\ ring = Null
  /\ draw = Null
  /\ view = Null

\* loadImage(file): lines 79-92, the promise is returned pending
LoadCall(i, f) ==
  /\ load.calls[i].pc = "idle"
  /\ LET made == createObjectURL(load)
     IN  load' = [made EXCEPT !.calls[i] = [pc |-> "waiting", file |-> f,
                                            url |-> made.nextUrl, promise |-> "pending",
                                            value |-> "", settles |-> 0]]
  /\ UNCHANGED <<heap, settings, pc, frame, ctx, out, cell, result, ref, geo, shp, rgn,
                 pass, exp, panel, page, ring, draw, view>>

\* the image has loaded: img.onload runs
LoadOnload(i) ==
  /\ load.calls[i].pc = "waiting"
  /\ load.calls[i].file.loads
  /\ load' = [onload(load, i) EXCEPT !.calls[i].pc = "done"]
  /\ UNCHANGED <<heap, settings, pc, frame, ctx, out, cell, result, ref, geo, shp, rgn,
                 pass, exp, panel, page, ring, draw, view>>

\* the image has failed to load: img.onerror runs
LoadOnerror(i) ==
  /\ load.calls[i].pc = "waiting"
  /\ ~load.calls[i].file.loads
  /\ load' = [onerror(load, i) EXCEPT !.calls[i].pc = "done"]
  /\ UNCHANGED <<heap, settings, pc, frame, ctx, out, cell, result, ref, geo, shp, rgn,
                 pass, exp, panel, page, ring, draw, view>>

NextLoad ==
  \/ \E i \in LoadCalls, f \in LoadFiles : LoadCall(i, f)
  \/ \E i \in LoadCalls : LoadOnload(i)
  \/ \E i \in LoadCalls : LoadOnerror(i)

\* the browser dispatches load or error for every image whose src was set
SpecLoad ==
  /\ InitLoad
  /\ [][NextLoad]_vars
  /\ \A i \in LoadCalls : WF_vars(LoadOnload(i)) /\ WF_vars(LoadOnerror(i))

\* C28: the URL a call of loadImage creates is revoked exactly once, when
\* the image loads or fails, and not before; the promise settles exactly
\* once, fulfilled with the image on load and rejected with 'Failed to load
\* image' on error; a settled promise leaves no URL of its call, and every
\* call comes to settle.
C28_UrlRevokedOnce ==
  /\ [](\A i \in LoadCalls :
          /\ load.calls[i].pc = "waiting" =>
               /\ load.calls[i].promise = "pending"
               /\ load.calls[i].url \in load.live
               /\ load.revoked[load.calls[i].url] = 0
               /\ \A j \in LoadCalls \ {i} :
                    load.calls[j].pc # "idle" => load.calls[j].url # load.calls[i].url
          /\ load.calls[i].pc = "done" =>
               /\ load.calls[i].url \notin load.live
               /\ load.revoked[load.calls[i].url] = 1
               /\ load.calls[i].settles = 1
               /\ load.calls[i].promise
                    = (IF load.calls[i].file.loads THEN "fulfilled" ELSE "rejected")
               /\ load.calls[i].value
                    = (IF load.calls[i].file.loads THEN load.calls[i].file.name
                       ELSE "Failed to load image"))
  /\ \A i \in LoadCalls : (load.calls[i].pc = "waiting") ~> (load.calls[i].pc = "done")

\* of three calls in flight together one was fulfilled and one rejected,
\* each with its URL revoked, and the third still holds its URL
C28_Witness ==
  /\ \E i \in LoadCalls : load.calls[i].promise = "fulfilled"
  /\ \E i \in LoadCalls : load.calls[i].promise = "rejected"
  /\ \E i \in LoadCalls : load.calls[i].promise = "pending"
  /\ Cardinality(load.live) = 1
  /\ load.nextUrl = 3

(***************************************************************************)
(* drawImageToCanvas by itself, on images from 1 pixel to several thousand *)
(* a side and on limits from 2 up to the page's 1200.                      *)
(***************************************************************************)
DrawSides == {1, 2, 3, 7, 8, 1200, 1201, 2400, 4000}

DrawLimits == {2, 3, 8, 1200}

InitDraw ==
  /\ draw \in {[pc |-> "call", img |-> [name |-> "img", width |-> w, height |-> h],
                maxWidth |-> mw, maxHeight |-> mh, canvas |-> Null] :
                w \in DrawSides, h \in DrawSides, mw \in DrawLimits, mh \in DrawLimits}
  /\ heap = Null
  /\ settings = Null
  /\ pc = Null
  /\ frame = Null
  /\ ctx = Null
  /\ out = Null
  /\ cell = Null
  /\ result = Null
  /\ ref = Null
  /\ geo = Null
  /\ shp = Null
  /\ rgn = Null
  /\ pass = Null
  /\ exp = Null
  /\ panel = Null
  /\ page = Null
  /\ ring = Null
  /\ load = Null
  /\ view = Null

\* drawImageToCanvas(img, maxWidth, maxHeight)
DrawCall ==
  /\ draw.pc = "call"
  /\ \E c \in {drawImageToCanvas(draw.img, draw.maxWidth, draw.maxHeight)} :
       draw' = [draw EXCEPT !.canvas = c, !.pc = "done"]
  /\ UNCHANGED <<heap, settings, pc, frame, ctx, out, cell, result, ref, geo, shp, rgn,
                 pass, exp, panel, page, ring, load, view>>

\* convertToPixelArt is called on the canvas (page line 44): it throws on a
\* canvas without pixels
DrawConvert ==
  /\ draw.pc = "done"
  /\ \E r \in {ConvertCounts(draw.canvas.width, draw.canvas.height,
                             DEFAULT_SETTINGS.gridSize)} :
       draw' = [draw EXCEPT !.pc = IF r.threw THEN "threw" ELSE "converted"]
  /\ UNCHANGED <<heap, settings, pc, frame, ctx, out, cell, result, ref, geo, shp, rgn,
                 pass, exp, panel, page, ring, load, view>>

NextDraw == DrawCall \/ DrawConvert

SpecDraw == InitDraw /\ [][NextDraw]_vars

\* C29: for an image of 1 pixel or more a side and limits of 2 or more the
\* canvas drawImageToCanvas returns has a positive, even width and height
\* within the limits, and convertToPixelArt gets a canvas with pixels.
C29_CanvasPositiveEven ==
  /\ draw.canvas # Null =>
       /\ draw.canvas.width > 0 /\ draw.canvas.height > 0
       /\ draw.canvas.width % 2 = 0 /\ draw.canvas.height % 2 = 0
       /\ draw.canvas.width <= draw.maxWidth /\ draw.canvas.height <= draw.maxHeight
  /\ draw.pc # "threw"

(***************************************************************************)
(* PixelCanvas: its zoom.  view.zoom and view.prevResult are the state of  *)
(* the last render and view.resultCanvas the prop it was rendered with.    *)
(* A click handler reads the zoom of the last render and React renders at  *)
(* once after it; the wheel listener is a native one whose updates, each a *)
(* function of the state before it, wait in view.queue for the next        *)
(* render, which applies them in order.  view.event is the last event and  *)
(* view.oldZoom the zoom its handler read.                                 *)
(***************************************************************************)
MaxQueued == 2

Results == {Null, [canvas |-> 1], [canvas |-> 2]}

WheelEvents ==
  {[type |-> "wheel", ctrlKey |-> c, metaKey |-> m, deltaY |-> d] :
     c \in BOOLEAN, m \in BOOLEAN, d \in {-3, 0, 3}}

\* a render applies the queued updates of zoom in order
RECURSIVE ApplyQueue(_, _)
ApplyQueue(zoom, queue) ==
  IF queue = <<>> THEN zoom
  ELSE ApplyQueue(Max(25, Min(400, zoom + Head(queue))), Tail(queue))

\* the wheel listener without its first line
handleWheelAnyKey(v, e) ==
  [v EXCEPT !.queue = Append(@, IF e.deltaY > 0 THEN -15 ELSE 15)]

\* handleWheel (lines 101-106): the update it queues
handleWheel(v, e) ==
  IF ~e.ctrlKey /\ ~e.metaKey THEN v
  ELSE [v EXCEPT !.queue = Append(@, IF e.deltaY > 0 THEN -15 ELSE 15)]

\* doZoom(newZoom) (lines 75-90) and the render after it
doZoom(v, newZoom) == [v EXCEPT !.zoom = newZoom, !.queue = <<>>, !.oldZoom = v.zoom]

InitView ==
  /\ view = [zoom |-> 100, prevResult |-> Null, resultCanvas |-> Null, queue |-> <<>>,
             oldZoom |-> 100, event |-> [type |-> "mount"]]
  /\ heap = Null
  /\ settings = Null
  /\ pc = Null
  /\ frame = Null
  /\ ctx = Null
  /\ out = Null
  /\ cell = Null
  /\ result = Null
  /\ ref = Null
  /\ geo = Null
  /\ shp = Null
  /\ rgn = Null
  /\ pass = Null
  /\ exp = Null
  /\ panel = Null
  /\ page = Null
  /\ ring = Null
  /\ load = Null
  /\ draw = Null

\* line 92
ZoomIn ==
  /\ view' = [doZoom(view, Min(400, view.zoom + 25)) EXCEPT !.event = [type |-> "zoomIn"]]
  /\ UNCHANGED <<heap, settings, pc, frame, ctx, out, cell, result, ref, geo, shp, rgn,
                 pass, exp, panel, page, ring, load, draw>>

\* line 93
ZoomOut ==
  /\ view' = [doZoom(view, Max(25, view.zoom - 25)) EXCEPT !.event = [type |-> "zoomOut"]]
  /\ UNCHANGED <<heap, settings, pc, frame, ctx, out, cell, result, ref, geo, shp, rgn,
                 pass, exp, panel, page, ring, load, draw>>

\* line 94
ZoomFit ==
  /\ view' = [doZoom(view, 100) EXCEPT !.event = [type |-> "zoomFit"]]
  /\ UNCHANGED <<heap, settings, pc, frame, ctx, out, cell, result, ref, geo, shp, rgn,
                 pass, exp, panel, page, ring, load, draw>>

\* a wheel event on the viewport
Wheel ==
  /\ Len(view.queue) < MaxQueued
  /\ \E e \in WheelEvents :
       view' = [handleWheel(view, e) EXCEPT !.event = e, !.oldZoom = view.zoom]
  /\ UNCHANGED <<heap, settings, pc, frame, ctx, out, cell, result, ref, geo, shp, rgn,
                 pass, exp, panel, page, ring, load, draw>>

\* the render the queued updates asked for
Render ==
  /\ view.queue # <<>>
  /\ view' = [view EXCEPT !.zoom = ApplyQueue(@, view.queue), !.queue = <<>>,
                          !.event = [type |-> "render"]]
  /\ UNCHANGED <<heap, settings, pc, frame, ctx, out, cell, result, ref, geo, shp, rgn,
                 pass, exp, panel, page, ring, load, draw>>

\* the page renders PixelCanvas with another resultCanvas (lines 29-33)
ResultChange ==
  /\ \E rc \in Results \ {view.resultCanvas} :
       view' = [view EXCEPT !.resultCanvas = rc,
                            !.prevResult = IF @ # rc THEN rc ELSE @,
                            !.zoom = IF view.prevResult # rc THEN 100
                                     ELSE ApplyQueue(@, view.queue),
                            !.queue = <<>>,
                            !.event = [type |-> "result"]]
  /\ UNCHANGED <<heap, settings, pc, frame, ctx, out, cell, result, ref, geo, shp, rgn,
                 pass, exp, panel, page, ring, load, draw>>

NextView == ZoomIn \/ ZoomOut \/ ZoomFit \/ Wheel \/ Render \/ ResultChange

SpecView == InitView /\ [][NextView]_vars

\* C30: zoom stays from 25 to 400 under zoom-in, zoom-out, fit, wheel
\* events and changes of the result; a wheel event with neither ctrl nor
\* meta changes nothing of the zoom, and every change of resultCanvas sets
\* zoom to 100.
C30_ZoomInRange ==
  /\ [](view.zoom \in 25..400 /\ view.prevResult = view.resultCanvas)
  /\ [][(view'.event # view.event /\ view'.event.type = "wheel"
           /\ ~view'.event.ctrlKey /\ ~view'.event.metaKey)
          => (view'.zoom = view.zoom /\ view'.queue = view.queue)]_vars
  /\ [][view'.resultCanvas # view.resultCanvas => view'.zoom = 100]_vars

\* from a zoom of 40, reached with the wheel, zoom-out went to 25 and not to 15
C30_Witness ==
  /\ view.event.type = "zoomOut"
  /\ view.oldZoom = 40
  /\ view.zoom = 25
  /\ view.resultCanvas # Null

====
